---- MODULE Spec2Model ----
(***************************************************************************)
(* Model of the YouTube research pipeline:                                 *)
(*   - the Run Ledger (table workflow_runs) and the two trigger wrappers   *)
(*     registerManualWorkflow / registerCronWorkflow,                      *)
(*   - the six-step workflow youtubeResearchWorkflow,                      *)
(*   - the Duplicate Tracker (simpleVideoTrackerTool) and the Ingestion    *)
(*     Coordinator (youTubeScrapeTool.execute).                            *)
(*                                                                         *)
(* Spec       : wrappers + workflow + ledger (several wrapper executions,  *)
(*              retries, redelivered events, failing ledger statements). *)
(* SpecIngest : tracker index file + video store + ingest.                 *)
(* SpecUrl    : extractVideoId applied to the URLs of one video.           *)
(* SpecStore  : table videos under the persist transactions of two runs.   *)
(* SpecHarvest: the transcript functions, and one video through harvest,   *)
(*              analyze and persist.                                       *)
(* SpecDownload: one audio download with its temporary files.             *)
(* SpecField  : the analysis fields as saveAnalysisData stores them.       *)
(* SpecSave   : the transaction of saveAnalysisData.                       *)
(* SpecAnalyze: contentAnalysisTool.execute over a batch of videos.        *)
(* SpecScrape : the URL list scrapeYouTubeStep hands to ingest.            *)
(* SpecGenerate: scriptGeneratorTool.execute and the script artifact.      *)
(* SpecComments: the comment nodes getYouTubeVideoData extracts.           *)
(* SpecTrack  : the track calls of two concurrent runs on the index file.  *)
(* SpecDelivery: two deliveries of one trigger event, their wrapper        *)
(*              executions interleaved statement by statement.             *)
(*                                                                         *)
(* run.start() is taken to reject with the error of the step that threw,   *)
(* as the wrappers' catch blocks expect. A ledger statement or a file      *)
(* operation may fail, a bounded number of times.                          *)
(*                                                                         *)
(* A JavaScript string is represented by [text, len]: the text it is a     *)
(* prefix of and its length; s.slice(0, n) keeps the text and cuts len.    *)
(***************************************************************************)
EXTENDS Integers, Sequences, FiniteSets, TLC

VARIABLES
    ledger,      \* table workflow_runs: sequence of rows, in insertion order
    nextRun,     \* supply of fresh runIds (Date.now() + random suffix)
    events,      \* the manual trigger events sent so far: runId and sender
    execs,       \* wrapper executions started so far
    inv,         \* the wrapper executions: one record per slot
    dbFaults,    \* ledger statements that have thrown so far
    index,       \* tracker file data/video_tracking.json
    store,       \* table videos: set of video ids
    ing,         \* the ingest call in progress
    fsFaults,    \* file-system operations that have failed so far
    trk,         \* the last call of the tracker tool and what it returned
    tracked,     \* URLs of the track calls that succeeded since the last clear
    calls,       \* tool calls made so far
    ext,         \* the last application of extractVideoId to a pair of URLs
    videosTable, \* table videos with its rows: sequence of rows, in insertion order
    txn,         \* the persist transaction of each run
    persists,    \* persist transactions begun so far
    hv,          \* one harvest, or one application of a transcript function
    dl,          \* one run of the download-and-transcribe strategy
    pf,          \* one analysis field given to persist and the value stored
    sv,          \* one call of saveAnalysisData and the tables it writes
    an,          \* one call of the analyzer tool
    sc,          \* the settings rows and one run of the scrape stage
    gs,          \* one run of the generate-script stage
    dv,          \* the deliveries of one manual trigger event and their wrapper executions
    cm,          \* the comment nodes of a watch page and the comments extracted from them
    ct           \* the index file under the track calls of two concurrent runs

pipelineVars == <<ledger, nextRun, events, execs, inv, dbFaults>>
ingestVars == <<index, store, ing, fsFaults, trk, tracked, calls>>
urlVars == <<ext>>
storeVars == <<videosTable, txn, persists>>
harvestVars == <<hv>>
downloadVars == <<dl>>
fieldVars == <<pf>>
saveVars == <<sv>>
analyzeVars == <<an>>
scrapeVars == <<sc>>
generateVars == <<gs>>
deliveryVars == <<dv>>
commentVars == <<cm>>
trackVars == <<ct>>
otherVars == <<urlVars, storeVars, harvestVars, downloadVars, fieldVars, saveVars, analyzeVars, scrapeVars, generateVars, deliveryVars, commentVars, trackVars>>
exceptUrl == <<pipelineVars, ingestVars, storeVars, harvestVars, downloadVars, fieldVars, saveVars, analyzeVars, scrapeVars, generateVars, deliveryVars, commentVars, trackVars>>
exceptStore == <<pipelineVars, ingestVars, urlVars, harvestVars, downloadVars, fieldVars, saveVars, analyzeVars, scrapeVars, generateVars, deliveryVars, commentVars, trackVars>>
exceptHarvest == <<pipelineVars, ingestVars, urlVars, storeVars, downloadVars, fieldVars, saveVars, analyzeVars, scrapeVars, generateVars, deliveryVars, commentVars, trackVars>>
exceptDownload == <<pipelineVars, ingestVars, urlVars, storeVars, harvestVars, fieldVars, saveVars, analyzeVars, scrapeVars, generateVars, deliveryVars, commentVars, trackVars>>
exceptField == <<pipelineVars, ingestVars, urlVars, storeVars, harvestVars, downloadVars, saveVars, analyzeVars, scrapeVars, generateVars, deliveryVars, commentVars, trackVars>>
exceptSave == <<pipelineVars, ingestVars, urlVars, storeVars, harvestVars, downloadVars, fieldVars, analyzeVars, scrapeVars, generateVars, deliveryVars, commentVars, trackVars>>
exceptAnalyze == <<pipelineVars, ingestVars, urlVars, storeVars, harvestVars, downloadVars, fieldVars, saveVars, scrapeVars, generateVars, deliveryVars, commentVars, trackVars>>
exceptScrape == <<pipelineVars, ingestVars, urlVars, storeVars, harvestVars, downloadVars, fieldVars, saveVars, analyzeVars, generateVars, deliveryVars, commentVars, trackVars>>
exceptGenerate == <<pipelineVars, ingestVars, urlVars, storeVars, harvestVars, downloadVars, fieldVars, saveVars, analyzeVars, scrapeVars, deliveryVars, commentVars, trackVars>>
\* the wrapper executions of SpecDelivery write the ledger
exceptDelivery == <<nextRun, events, execs, inv, ingestVars, urlVars, storeVars, harvestVars, downloadVars, fieldVars, saveVars, analyzeVars, scrapeVars, generateVars, commentVars, trackVars>>
exceptComment == <<pipelineVars, ingestVars, urlVars, storeVars, harvestVars, downloadVars, fieldVars, saveVars, analyzeVars, scrapeVars, generateVars, deliveryVars, trackVars>>
exceptTrack == <<pipelineVars, ingestVars, urlVars, storeVars, harvestVars, downloadVars, fieldVars, saveVars, analyzeVars, scrapeVars, generateVars, deliveryVars, commentVars>>
vars == <<ledger, nextRun, events, execs, inv, dbFaults,
          index, store, ing, fsFaults, trk, tracked, calls, ext,
          videosTable, txn, persists, hv, dl, pf, sv, an, sc, gs, dv, cm, ct>>

----------------------------------------------------------------------------
(* Bounds of the model *)

MaxExecutions == 2   \* wrapper executions started (first deliveries, redeliveries, retries)
MaxVideos == 1       \* URLs requested in one run
MaxDbFaults == 1     \* ledger statements that throw

(* Program constants *)

MaxErrorMessage == 1000   \* String(error).slice(0, 1000)
DefaultVideoCount == 0    \* video_count ... default(0)

\* In Spec the wrapper executions run one after the other
Slots == {1}
NoRunId == 0
NoError == [origin |-> "none", size |-> 0]
NoMessage == [text |-> "none", len |-> 0]

Min(a, b) == IF a < b THEN a ELSE b

----------------------------------------------------------------------------
(* Errors and their string form *)

\* The errors a stage or the database throws, by the size of their string
\* form: a short one and one beyond the cap of the error message.

StageError(stage) == {[origin |-> stage, size |-> n] : n \in {5, MaxErrorMessage + 1}}
DbError == [origin |-> "db", size |-> 5]

\* String(error)
StringOf(e) == [text |-> e.origin, len |-> e.size]

\* s.slice(0, n)
Slice(s, n) == [text |-> s.text, len |-> Min(s.len, n)]

ErrorMessageUntruncated(e) == StringOf(e)

\* const errorMessage = String(error).slice(0, 1000)
ErrorMessageOf(e) == Slice(StringOf(e), MaxErrorMessage)

----------------------------------------------------------------------------
(* The ledger: table workflow_runs *)

Row(r, st, msg, def) ==
    [runId |-> r, status |-> st, errorMessage |-> msg,
     videoCount |-> DefaultVideoCount, defensive |-> def]

\* INSERT ... VALUES (runId, 'running', NOW(), metadata)
RunningRow(r) == Row(r, "running", NoMessage, FALSE)

CompletedRowAsRunning(r) == Row(r, "running", NoMessage, TRUE)

\* INSERT ... VALUES (runId, 'completed', NOW(), NOW(), { source: 'defensive_insert' })
CompletedRow(r) == Row(r, "completed", NoMessage, TRUE)

\* INSERT ... VALUES (runId, 'failed', NOW(), NOW(), errorMessage,
\*                    { source: 'defensive_insert' })
FailedRow(r, msg) == Row(r, "failed", msg, TRUE)

RowsOf(r) == {i \in 1..Len(ledger) : ledger[i].runId = r}

NoUniqueConstraint(r) == FALSE

\* run_id ... unique(): an INSERT of a runId the table already holds throws
UniqueViolation(r) == RowsOf(r) # {}

\* UPDATE workflow_runs SET status = 'completed', completed_at = NOW() WHERE run_id = r
UpdateCompleted(r) ==
    [i \in 1..Len(ledger) |->
        IF ledger[i].runId = r THEN [ledger[i] EXCEPT !.status = "completed"]
        ELSE ledger[i]]

\* UPDATE workflow_runs SET status = 'failed', error_message = msg, completed_at = NOW()
\* WHERE run_id = r
UpdateFailed(r, msg) ==
    [i \in 1..Len(ledger) |->
        IF ledger[i].runId = r
        THEN [ledger[i] EXCEPT !.status = "failed", !.errorMessage = msg]
        ELSE ledger[i]]

\* tx.update(workflowRuns).set({ videoCount }).where(eq(workflowRuns.runId, runId))
UpdateVideoCount(r, n) ==
    [i \in 1..Len(ledger) |->
        IF ledger[i].runId = r THEN [ledger[i] EXCEPT !.videoCount = n]
        ELSE ledger[i]]

\* A ledger statement may throw while faults remain
CanFault == dbFaults < MaxDbFaults

----------------------------------------------------------------------------
(* Wrapper executions *)

IdleInv ==
    [kind |-> "none", runId |-> NoRunId, pc |-> "idle",
     error |-> NoError, trace |-> <<>>, requested |-> 0, scraped |-> 0,
     analyzed |-> 0, stored |-> 0, scriptCalls |-> 0,
     missing |-> FALSE, handlerThrew |-> FALSE, sender |-> "none"]

StageOrderPersistLast ==
    <<"scrape", "analyze", "transform", "generate", "persist", "mark">>

\* the .then(...) chain of youtubeResearchWorkflow
StageOrder == <<"scrape", "analyze", "persist", "transform", "generate", "mark">>

StageIndex(s) == CHOOSE i \in 1..Len(StageOrder) : StageOrder[i] = s

\* the step that follows stage s in the chain; after the last one run.start() returns
NextStage(s) ==
    IF StageIndex(s) < Len(StageOrder) THEN StageOrder[StageIndex(s) + 1]
    ELSE "complete_update"

\* a fresh execution of the wrapper body for runId r
Started(kind, r, n) ==
    [IdleInv EXCEPT !.kind = kind, !.runId = r, !.pc = StageOrder[1], !.requested = n]

\* the runtime context of the persist step: storeDataStep builds a new
\* RuntimeContext(), so the tool reads runId as undefined
PersistRunId(w) == NoRunId

StageOk(w, s) ==
    [inv[w] EXCEPT !.pc = NextStage(s), !.trace = Append(@, <<s, "ok">>)]

StageThrowsAndContinues(w, s, e) ==
    [inv[w] EXCEPT !.pc = NextStage(s), !.error = e,
                   !.trace = Append(@, <<s, "throws">>)]

StageThrows(w, s, e) ==
    [inv[w] EXCEPT !.pc = "fail_update", !.error = e,
                   !.trace = Append(@, <<s, "throws">>)]

----------------------------------------------------------------------------
(* URLs and the two identifier extractions *)

MaxUrls == 2       \* URLs requested in one ingest or check call
MaxFsFaults == 1   \* reads and writes of the tracker file that fail
MaxCalls == 3      \* tool calls (ingest, check, track, list, clear)
IdLength == 11     \* ([a-zA-Z0-9_-]{11})

\* A URL is its shape and its identifier segment, the characters that follow the
\* shape's prefix up to the first of & ? # and newline. The segments are made
\* of characters of [a-zA-Z0-9_-]; one of them is one character longer than a
\* platform identifier and starts with the other; it comes in the watch shape.
Shapes == {"watch", "short", "embed", "v", "other"}
Segments == {[text |-> "A", len |-> IdLength], [text |-> "A", len |-> IdLength + 1]}
Urls == {u \in [shape : Shapes, seg : Segments] : u.seg.len = IdLength \/ u.shape = "watch"}

\* the requested lists: up to MaxUrls different URLs, in one fixed order
UrlSeq ==
    <<[shape |-> "watch", seg |-> [text |-> "A", len |-> IdLength]],
      [shape |-> "short", seg |-> [text |-> "A", len |-> IdLength]],
      [shape |-> "embed", seg |-> [text |-> "A", len |-> IdLength]],
      [shape |-> "v", seg |-> [text |-> "A", len |-> IdLength]],
      [shape |-> "watch", seg |-> [text |-> "A", len |-> IdLength + 1]],
      [shape |-> "other", seg |-> [text |-> "A", len |-> IdLength]]>>
Increasing(n) ==
    {p \in [1..n -> 1..Len(UrlSeq)] : \A i \in 1..(n - 1) : p[i] < p[i + 1]}
UrlLists ==
    UNION {{[i \in 1..n |-> UrlSeq[p[i]]] : p \in Increasing(n)} : n \in 1..MaxUrls}

NoId == [ok |-> FALSE, id |-> NoMessage]

\* extractVideoId: the first pattern accepts watch?v=, youtu.be/ and embed/,
\* the second /v/; the identifier is the whole segment
extractVideoId(url) ==
    IF url.shape \in {"watch", "short", "embed"} THEN [ok |-> TRUE, id |-> url.seg]
    ELSE IF url.shape = "v" THEN [ok |-> TRUE, id |-> url.seg]
    ELSE NoId

\* url.match(/(?:youtube\.com\/watch\?v=|youtu\.be\/)([a-zA-Z0-9_-]{11})/): the
\* first 11 characters of the segment of a watch or short URL
coordinatorVideoId(url) ==
    IF url.shape \in {"watch", "short"} /\ url.seg.len >= IdLength
    THEN [ok |-> TRUE, id |-> Slice(url.seg, IdLength)]
    ELSE NoId

----------------------------------------------------------------------------
(* The tracker file and the tracker tool *)

NoFile == [exists |-> FALSE, videos |-> <<>>]
EmptyFile == [exists |-> TRUE, videos |-> <<>>]

\* which file operations of a call fail: the read of ensureTrackingFile, the
\* write of its catch block, the write of saveTrackingData
FaultChoices == [read : BOOLEAN, write : BOOLEAN, save : BOOLEAN]
FaultCount(f) ==
    (IF f.read THEN 1 ELSE 0) + (IF f.write THEN 1 ELSE 0) + (IF f.save THEN 1 ELSE 0)
NoFaults == [read |-> FALSE, write |-> FALSE, save |-> FALSE]

\* ensureTrackingFile: the parsed file, or, on any error of mkdir, readFile or
\* JSON.parse, a new empty file written in place of the old one
ensureTrackingFile(file, f) ==
    IF file.exists /\ ~f.read THEN [ok |-> TRUE, data |-> file.videos, file |-> file]
    ELSE IF ~f.write THEN [ok |-> TRUE, data |-> <<>>, file |-> EmptyFile]
    ELSE [ok |-> FALSE, data |-> <<>>, file |-> file]

IdsOf(videos) == {videos[i].videoId : i \in 1..Len(videos)}

\* checkDuplicates on the data read: the per-URL results
checkResults(data, urls) ==
    [i \in 1..Len(urls) |->
        LET x == extractVideoId(urls[i])
        IN  [url |-> urls[i],
             exists |-> x.ok /\ x.id \in IdsOf(data),
             error |-> ~x.ok]]

newUrlsWithErrors(results) ==
    LET new == SelectSeq(results, LAMBDA r : ~r.exists)
    IN  [i \in 1..Len(new) |-> new[i].url]

\* results.filter(r => !r.exists && !r.error).map(v => v.url)
newUrlsOf(results) ==
    LET new == SelectSeq(results, LAMBDA r : ~r.exists /\ ~r.error)
    IN  [i \in 1..Len(new) |-> new[i].url]

duplicateUrlsOf(results) ==
    LET dup == SelectSeq(results, LAMBDA r : r.exists)
    IN  [i \in 1..Len(dup) |-> dup[i].url]

\* trackNewVideo on the data read: replace the record with this videoId or push
upsertVideo(data, entry) ==
    IF entry.videoId \in IdsOf(data)
    THEN [i \in 1..Len(data) |-> IF data[i].videoId = entry.videoId THEN entry ELSE data[i]]
    ELSE Append(data, entry)

\* what the tool call returns and the file it leaves
CallResult(op, urls, success, results, file) ==
    [op |-> op, urls |-> urls, success |-> success,
     newUrls |-> newUrlsOf(results), duplicateUrls |-> duplicateUrlsOf(results),
     errors |-> {results[i].url : i \in {j \in 1..Len(results) : results[j].error}},
     file |-> file]

NoCall == [op |-> "none", urls |-> <<>>, success |-> FALSE, newUrls |-> <<>>,
           duplicateUrls |-> <<>>, errors |-> {}]

\* action "check" of simpleVideoTrackerTool.execute
checkCall(file, urls, f) ==
    LET e == ensureTrackingFile(file, f)
    IN  IF e.ok THEN CallResult("check", urls, TRUE, checkResults(e.data, urls), e.file)
        ELSE CallResult("check", urls, FALSE, <<>>, e.file)

trackCallUnsaved(file, entry, f) ==
    LET e == ensureTrackingFile(file, f)
    IN  IF e.ok
        THEN CallResult("track", <<entry.url>>, TRUE, <<>>,
                        IF f.save THEN e.file
                        ELSE [exists |-> TRUE, videos |-> upsertVideo(e.data, entry)])
        ELSE CallResult("track", <<entry.url>>, FALSE, <<>>, e.file)

\* action "track" of simpleVideoTrackerTool.execute
trackCall(file, entry, f) ==
    LET e == ensureTrackingFile(file, f)
    IN  IF e.ok /\ ~f.save
        THEN CallResult("track", <<entry.url>>, TRUE, <<>>,
                        [exists |-> TRUE, videos |-> upsertVideo(e.data, entry)])
        ELSE CallResult("track", <<entry.url>>, FALSE, <<>>, e.file)

\* action "list" of simpleVideoTrackerTool.execute
listCall(file, f) ==
    LET e == ensureTrackingFile(file, f)
    IN  CallResult("list", <<>>, e.ok, <<>>, e.file)

\* action "clear" of simpleVideoTrackerTool.execute
clearCall(file, f) ==
    IF ~f.save THEN CallResult("clear", <<>>, TRUE, <<>>, EmptyFile)
    ELSE CallResult("clear", <<>>, FALSE, <<>>, file)

\* the part of a call result kept in trk
Returned(c) == [k \in DOMAIN NoCall |-> c[k]]

\* the fault choices a call on this file can meet within the fault budget
CanMeet(file, f) ==
    /\ fsFaults + FaultCount(f) <= MaxFsFaults
    /\ f.read => file.exists
    /\ f.write => (f.read \/ ~file.exists)

----------------------------------------------------------------------------
(* extractVideoId on the characters of a URL *)

MaxIdChars == 3   \* characters of an identifier

\* A URL is a sequence of atoms: a host-and-path prefix the patterns name, or
\* one character.
WatchPrefix == "youtube.com/watch?v="
ShortPrefix == "youtu.be/"
EmbedPrefix == "youtube.com/embed/"
VPrefix == "youtube.com/v/"
Scheme == "https://www."

DelimitersNoAmpersand == {"\n", "?", "#"}

\* the characters the capture group [^&\n?#]+ stops at
Delimiters == {"&", "\n", "?", "#"}

\* characters of an identifier
IdChars == {"a", "B", "_"}
Identifiers == UNION {[1..n -> IdChars] : n \in 1..MaxIdChars}

\* what follows the identifier: nothing, or further query parameters
WatchSuffixes == {<<>>, <<"&", "t", "=", "1">>}
ShortSuffixes == {<<>>, <<"?", "t", "=", "1">>}

NoMatch == [ok |-> FALSE, id |-> <<>>]

\* the longest run of characters other than delimiters that starts at s[i]
RECURSIVE captureFrom(_, _)
captureFrom(s, i) ==
    IF i > Len(s) \/ s[i] \in Delimiters THEN <<>>
    ELSE <<s[i]>> \o captureFrom(s, i + 1)

\* url.match(pattern): the leftmost place where one of the prefixes is
\* followed by at least one character of the capture group
matchPattern(s, prefixes) ==
    LET at == {i \in 1..Len(s) : s[i] \in prefixes /\ captureFrom(s, i + 1) # <<>>}
    IN  IF at = {} THEN NoMatch
        ELSE [ok |-> TRUE,
              id |-> captureFrom(s, (CHOOSE i \in at : \A j \in at : i <= j) + 1)]

\* extractVideoId: the first pattern that matches gives the identifier; none: throw
extractVideoIdOf(s) ==
    IF matchPattern(s, {WatchPrefix, ShortPrefix, EmbedPrefix}).ok
    THEN matchPattern(s, {WatchPrefix, ShortPrefix, EmbedPrefix})
    ELSE matchPattern(s, {VPrefix})

NoExtraction ==
    [id |-> <<>>, longUrl |-> <<>>, shortUrl |-> <<>>, otherUrl |-> <<>>,
     long |-> NoMatch, short |-> NoMatch, other |-> NoMatch]

(* Definitions of the video store (SpecStore) *)

MaxPersists == 3   \* persist transactions begun

\* the runs that persist at the same time
Runs == {"r1", "r2"}

StoreIds == {"v1", "v2"}

\* analyzedVideos of a persist call, by videoId
Batches == {<<"v1">>, <<"v2">>, <<"v1", "v2">>, <<"v2", "v1">>, <<"v1", "v1">>}

\* the values of tx.insert(videos): the videoId, and the run and the persist call
\* the other columns come from
VideoRow(id, r, n) == [videoId |-> id, by |-> r, n |-> n]

insertRow(rows, row) == Append(rows, row)

\* INSERT ... ON CONFLICT (video_id) DO UPDATE: the row of this videoId takes the
\* new values where it is, a videoId the table does not hold gets a new row
upsertRow(rows, row) ==
    IF \E i \in 1..Len(rows) : rows[i].videoId = row.videoId
    THEN [i \in 1..Len(rows) |-> IF rows[i].videoId = row.videoId THEN row ELSE rows[i]]
    ELSE Append(rows, row)

\* the table after the rows written by a transaction are applied in order
RECURSIVE applyWrites(_, _)
applyWrites(rows, writes) ==
    IF writes = <<>> THEN rows
    ELSE applyWrites(upsertRow(rows, Head(writes)), Tail(writes))

NoTransaction == [pc |-> "idle", batch |-> <<>>, pos |-> 0, writes |-> <<>>, n |-> 0]

(* Definitions of the harvest of one video (SpecHarvest) *)

MinCaptionLength == 50     \* cleanTranscript.length > 50
MaxTranscriptPrompt == 3000 \* videoData.transcript.substring(0, 3000)

NoText == [text |-> "", len |-> 0]
PanelText == [text |-> "panel", len |-> 5]
CaptionTexts == {[text |-> "caption", len |-> MinCaptionLength],
                 [text |-> "caption", len |-> MinCaptionLength + 1]}
SpokenTexts == {NoText, [text |-> "hello world", len |-> 11],
                [text |-> "speech", len |-> MaxTranscriptPrompt + 1]}

\* what the caption fetch does: it throws, finds no track, or yields a text
CaptionOutcomes ==
    {[status |-> "throws", text |-> NoText], [status |-> "none", text |-> NoText]}
    \cup {[status |-> "text", text |-> t] : t \in CaptionTexts}

\* what the transcription does: it throws or yields a text
SttOutcomes ==
    {[status |-> "throws", text |-> NoText]}
    \cup {[status |-> "text", text |-> t] : t \in SpokenTexts}

\* what the collaborators of getTranscriptViaPlaywright do: the browser launches or
\* not, the navigation succeeds or not, the transcript panel is hidden, holds no
\* segment or holds text, the caption fetch throws, finds no track or yields a
\* text, the browser closes or not
PlaywrightOutcomes ==
    [launch : BOOLEAN, goto : BOOLEAN, panel : {"hidden", "empty", "text"},
     caption : CaptionOutcomes, close : BOOLEAN]

\* what the collaborators of getYouTubeTranscriptViaDownload do: the audio download
\* succeeds or throws, the transcription throws or yields a text, cleanup throws or
\* not
DownloadOutcomes ==
    [download : BOOLEAN, stt : SttOutcomes, cleanup : BOOLEAN]

\* the page of a video as the two browser strategies would find it
PageFacts ==
    {p \in PlaywrightOutcomes :
        /\ p.launch /\ p.goto /\ p.close
        /\ p.panel # "hidden"
        /\ \/ p.caption.status = "none"
           \/ p.caption.text.len > MinCaptionLength}

\* what the collaborators of getYouTubeVideoData do
HarvestOutcomes ==
    [regex : BOOLEAN, p : PageFacts, d : DownloadOutcomes,
     launch : BOOLEAN, goto : BOOLEAN, landmark : BOOLEAN, extract : BOOLEAN,
     section : BOOLEAN, comments : {<<>>, <<"a comment of a viewer">>}]

Resolved(text, attempts) == [threw |-> FALSE, text |-> text, attempts |-> attempts]
Rejected(attempts) == [threw |-> TRUE, text |-> NoText, attempts |-> attempts]

\* getTranscriptViaPlaywright: chromium.launch is awaited before the try; the try has
\* a finally that closes the browser and no catch
getTranscriptViaPlaywright(o) ==
    IF ~o.launch THEN Rejected(<<>>)
    ELSE IF ~o.goto \/ ~o.close THEN Rejected(IF o.goto THEN <<"panel">> ELSE <<>>)
    ELSE IF o.panel = "text" THEN Resolved(PanelText, <<"panel">>)
    ELSE IF o.caption.status = "text" /\ o.caption.text.len > MinCaptionLength
         THEN Resolved(o.caption.text, <<"panel", "caption">>)
         ELSE Resolved(NoText, <<"panel", "caption">>)

\* getYouTubeTranscriptViaDownload: every error is caught and answered with "", the
\* cleanup of the finally is itself wrapped in a try/catch
getYouTubeTranscriptViaDownload(o) ==
    IF o.download /\ o.stt.status = "text"
    THEN Resolved(o.stt.text, <<"download">>)
    ELSE Resolved(NoText, <<"download">>)

\* the transcript functions tried one after the other until one yields text
resolveTranscriptChain(o) ==
    LET first == getTranscriptViaPlaywright(o.p)
        last == getYouTubeTranscriptViaDownload(o.d)
    IN  IF first.threw \/ first.text # NoText THEN first
        ELSE [last EXCEPT !.attempts = first.attempts \o @]

\* const transcript = await getYouTubeTranscriptViaDownload(videoUrl, ...)
resolveTranscript(o) == getYouTubeTranscriptViaDownload(o.d)

NoRecord == [transcript |-> NoText, comments |-> <<>>]

\* getYouTubeVideoData: the regex, the transcript, then the page: launch, goto, the
\* wait for the title element and the page.evaluate calls throw, the wait for the
\* comments section does not; browser.close() is the statement after the last
\* page.evaluate, and the catch only logs and rethrows
getYouTubeVideoData(o) ==
    LET t == resolveTranscript(o)
    IN  IF ~o.regex
        THEN [threw |-> TRUE, attempts |-> <<>>, record |-> NoRecord, open |-> FALSE]
        ELSE IF t.threw \/ ~o.launch
        THEN [threw |-> TRUE, attempts |-> t.attempts, record |-> NoRecord,
              open |-> FALSE]
        ELSE IF ~o.goto \/ ~o.landmark \/ ~o.extract
        THEN [threw |-> TRUE, attempts |-> t.attempts, record |-> NoRecord,
              open |-> TRUE]
        ELSE [threw |-> FALSE, attempts |-> t.attempts,
              record |-> [transcript |-> t.text, comments |-> o.comments],
              open |-> FALSE]

\* the prompt of analyzeVideoContent for a record
promptOf(record) ==
    [transcript |-> Slice(record.transcript, MaxTranscriptPrompt),
     comments |-> IF record.comments = <<>> THEN <<"No comments available">>
                  ELSE record.comments]

Null == [text |-> "null", len |-> 0]

NotNullColumnsWithTranscript == {"videoId", "url", "title", "transcript"}

\* the columns of table videos declared notNull() that persist writes
NotNullColumns == {"videoId", "url", "title"}

\* the values persist gives to tx.insert(videos) for a record
valuesOf(record) ==
    [transcript |-> IF record.transcript.len = 0 THEN Null ELSE record.transcript,
     comments |-> record.comments]

\* the insert is refused when a notNull column is given null
Insertable(values) == ~(values.transcript = Null /\ "transcript" \in NotNullColumns)

NoP == [launch |-> TRUE, goto |-> TRUE, panel |-> "empty",
        caption |-> [status |-> "none", text |-> NoText], close |-> TRUE]
NoD == [download |-> TRUE, stt |-> [status |-> "text", text |-> NoText], cleanup |-> TRUE]
NoH == [regex |-> TRUE, p |-> NoP, d |-> NoD, launch |-> TRUE, goto |-> TRUE,
        landmark |-> TRUE, extract |-> TRUE, section |-> TRUE, comments |-> <<>>]

NoHarvest ==
    [pc |-> "idle", fn |-> "none", p |-> NoP, d |-> NoD, h |-> NoH,
     threw |-> FALSE, text |-> NoText, attempts |-> <<>>, record |-> NoRecord,
     open |-> FALSE, emitted |-> FALSE, trackCalled |-> FALSE, prompt |-> promptOf(NoRecord),
     llm |-> TRUE, db |-> TRUE, row |-> valuesOf(NoRecord)]

(* Definitions of the download-and-transcribe strategy (SpecDownload) *)

\* the files yt-dlp has in the temporary directory under the name
\* audio_<timestamp>, stage after stage: nothing, the file it is downloading, the
\* downloaded media, the media with the audio being extracted, the audio alone
FileStages == <<{}, {"part"}, {"media"}, {"media", "audio"}, {"audio"}>>

StageOfFiles(files) == CHOOSE i \in 1..Len(FileStages) : FileStages[i] = files

NoDownload ==
    [pc |-> "idle",          \* where getYouTubeTranscriptViaDownload is
     proc |-> "none",        \* the yt-dlp process: none, running, exited, killed, error
     code |-> "none",        \* exit code of the process, once it has exited
     closed |-> FALSE,       \* the close handler has run
     timer |-> "none",       \* the 5 minute timer: none, armed, fired
     promise |-> "pending",  \* the promise of downloadYouTubeAudio
     settles |-> 0,          \* calls of resolve and reject so far
     files |-> {},           \* temporary files on disk
     cleanup |-> FALSE,      \* the strategy holds the cleanup function
     stt |-> "none",         \* what the transcription did
     text |-> NoText]        \* what the strategy returns

(* Definitions of the analysis fields persist stores (SpecField) *)

MAX_RAW_ANALYSIS_SIZE == 262144   \* const MAX_RAW_ANALYSIS_SIZE = 262144
TruncationSlack == 100            \* rawText.slice(0, MAX_RAW_ANALYSIS_SIZE - 100)
MarkerLength == 35                \* '...[truncated for database storage]'.length

\* the columns of table content_analysis that hold free text
AnalysisFields ==
    {"audienceProblems", "emotionalHooks", "mythsToBust", "contentPatterns",
     "audienceLanguage", "rawAnalysis"}

FieldLengths ==
    {0, 1, MAX_RAW_ANALYSIS_SIZE - TruncationSlack, MAX_RAW_ANALYSIS_SIZE - 1,
     MAX_RAW_ANALYSIS_SIZE, MAX_RAW_ANALYSIS_SIZE + 1, 300 * 1024}

\* a field of an analysis: the text it is a prefix of, its length, how many
\* whitespace characters it starts with
FieldValues ==
    {v \in [text : {"insight", "other"}, len : FieldLengths, pad : {0, 1}] : v.pad <= v.len}

\* a stored value: null, the fallback text of the column, or a text, with or
\* without the truncation marker at its end
NullValue == [kind |-> "null", text |-> "", len |-> 0, pad |-> 0, marked |-> FALSE]
FallbackValue == [kind |-> "fallback", text |-> "", len |-> 0, pad |-> 0, marked |-> FALSE]
TextValue(v, len, pad, marked) ==
    [kind |-> "text", text |-> v.text, len |-> len, pad |-> pad, marked |-> marked]

safeRawAnalysisSlicedAtCap(v) ==
    IF v.len = 0 THEN NullValue
    ELSE IF v.len > MAX_RAW_ANALYSIS_SIZE
    THEN TextValue(v, MAX_RAW_ANALYSIS_SIZE + MarkerLength, v.pad, TRUE)
    ELSE TextValue(v, v.len, v.pad, FALSE)

\* safeRawAnalysis: null for an empty rawAnalysis, the first
\* MAX_RAW_ANALYSIS_SIZE - 100 characters and the marker for one longer than the
\* cap, the text itself otherwise
safeRawAnalysisOf(v) ==
    IF v.len = 0 THEN NullValue
    ELSE IF v.len > MAX_RAW_ANALYSIS_SIZE
    THEN TextValue(v, Min(v.len, MAX_RAW_ANALYSIS_SIZE - TruncationSlack) + MarkerLength,
                   v.pad, TRUE)
    ELSE TextValue(v, v.len, v.pad, FALSE)

\* safeExtractField: the fallback for an empty or blank field, field.trim() otherwise
safeExtractField(v) ==
    IF v.len = 0 \/ v.pad = v.len THEN FallbackValue
    ELSE TextValue(v, v.len - v.pad, 0, FALSE)

\* the value tx.insert(contentAnalysis) is given for a field
storedField(field, v) ==
    IF field = "rawAnalysis" THEN safeRawAnalysisOf(v) ELSE safeExtractField(v)

NoField ==
    [pc |-> "idle", field |-> "none",
     value |-> [text |-> "insight", len |-> 0, pad |-> 0], stored |-> NullValue]

(* Definitions of one persist call (SpecSave) *)

MaxBatch == 2   \* records of one batch

\* a record of analyzedVideos: its videoId and whether it carries an analysis
SaveRecords == [videoId : StoreIds, analysis : BOOLEAN]

\* analyzedVideos: up to MaxBatch records with different videoIds
SaveBatches ==
    {b \in UNION {[1..n -> SaveRecords] : n \in 1..MaxBatch} :
        \A i, j \in 1..Len(b) : b[i].videoId = b[j].videoId => i = j}

\* the runId dataStorageTool.execute reads from its runtime context: the one of
\* the run, or none (storeDataStep hands the tool a new, empty context)
SaveRunIds == {NoRunId, 1}

NoSave ==
    [pc |-> "idle", runId |-> NoRunId, batch |-> <<>>, pos |-> 0,
     savedVideoCount |-> 0,
     txVideos |-> {}, txAnalysis |-> {}, txCount |-> DefaultVideoCount,
     aborted |-> FALSE,      \* a statement of the transaction has failed
     videos |-> {}, analysis |-> {}, videoCount |-> DefaultVideoCount,
     raised |-> FALSE]

(* Definitions of the analyze stage (SpecAnalyze) *)

MaxAnalyzed == 3   \* records given to one analyze call

\* the videos of the call, by videoId
AnalyzeInputs == UNION {[1..n -> StoreIds] : n \in 0..MaxAnalyzed}

NoAnalysis ==
    [pc |-> "idle", videos |-> <<>>, pos |-> 0,
     calls |-> <<>>,         \* records the service was called for, in call order
     inFlight |-> 0,         \* calls of the service that have not returned
     outcomes |-> <<>>,      \* whether each call succeeded
     analyzedVideos |-> <<>>,
     threw |-> FALSE]

\* the end of one turn of the loop, or of the loop
nextTurn(a) ==
    [a EXCEPT !.pos = @ + 1,
              !.pc = IF a.pos = Len(a.videos) THEN "done" ELSE "loop"]

insightFailedRethrown(a) ==
    [a EXCEPT !.pc = "done", !.threw = TRUE]

\* the catch of the loop: the error is logged, the record is left out, the loop
\* goes on
insightFailed(a) == nextTurn(a)

\* analyzedVideos.push(analyzedVideo)
insightSucceeded(a) ==
    nextTurn([a EXCEPT !.analyzedVideos = Append(@, a.videos[a.pos])])

(* Definitions of the scrape stage (SpecScrape) *)

MaxSettings == 2   \* settings rows saved

UrlChoices == {<<>>, <<"u1">>, <<"u2", "u1">>}

\* videoUrls = ["https://www.youtube.com/watch?v=dQw4w9WgXcQ"]
FallbackUrls == <<"https://www.youtube.com/watch?v=dQw4w9WgXcQ">>

\* inputData.videoUrls: left out, or a list
ScrapeInputs == [given : BOOLEAN, urls : UrlChoices]

\* the column video_urls of a settings row as the driver returns it: an array, a
\* string that JSON.parse turns into the list, or a string it cannot parse
SettingsValues ==
    [kind : {"array", "string"}, urls : UrlChoices]
    \cup {[kind |-> "invalid", urls |-> <<>>]}

settingsUrlsOldest(rows) == rows[1]

\* SELECT video_urls FROM settings ORDER BY id DESC LIMIT 1
settingsUrlsLatest(rows) == rows[Len(rows)]

\* the videoUrls the step hands to youTubeScrapeTool.execute
resolveVideoUrls(input, rows, readOk) ==
    IF input.given /\ Len(input.urls) > 0 THEN input.urls
    ELSE IF ~readOk \/ rows = <<>> THEN FallbackUrls
    ELSE IF settingsUrlsLatest(rows).kind = "invalid" THEN FallbackUrls
    ELSE settingsUrlsLatest(rows).urls

NoScrape ==
    [pc |-> "idle", settings |-> <<>>,
     input |-> [given |-> FALSE, urls |-> <<>>], readOk |-> TRUE,
     toIngest |-> <<>>]


----------------------------------------------------------------------------
(* The generate-script stage: scriptGeneratorTool, generateScriptStep *)

Topics == {"morning routine", "meal prep"}
Durations == {10, 15}

\* what the script service answers: no answer (the request fails), a JSON script, or
\* plain text, with or without a line that names the title
ServiceAnswers == {"fails", "json", "text with title", "text"}

NoScript == [title |-> "none", rawScript |-> FALSE, savedToFile |-> FALSE]

\* generateLongFormScript after the request returned: JSON.parse, else the sections
\* found in the text with their defaults
scriptOf(answer) ==
    IF answer = "json" THEN [title |-> "parsed", rawScript |-> FALSE, savedToFile |-> FALSE]
    ELSE IF answer = "text with title"
         THEN [title |-> "section", rawScript |-> TRUE, savedToFile |-> FALSE]
    ELSE [title |-> "topic - The Ultimate Guide", rawScript |-> TRUE, savedToFile |-> FALSE]

NoGenerate ==
    [pc |-> "idle", topic |-> "none", duration |-> 0, calls |-> 0, answer |-> "none",
     generated |-> NoScript, write |-> "none", result |-> NoScript, marked |-> FALSE,
     dataDir |-> FALSE]

artifactWriteRethrown(g) == [g EXCEPT !.pc = "thrown", !.write = "failed"]

\* fs.writeFile threw: the catch logs a warning, execute returns the script and the
\* step returns it
artifactWriteFailed(g) ==
    [g EXCEPT !.pc = "returned", !.write = "failed", !.result = g.generated]

\* fs.writeFile returned: the script carries the file's path
artifactWritten(g) ==
    [g EXCEPT !.pc = "returned", !.write = "written",
              !.result = [g.generated EXCEPT !.savedToFile = TRUE]]


----------------------------------------------------------------------------
(* Deliveries of one manual trigger event: concurrent wrapper executions *)

MaxRetries == 1          \* runs of an execution after its first one threw
Deliveries == {1, 2}     \* the event is delivered twice
DeliveredRunId == 1      \* event.data.runId

IdleExecution ==
    [pc |-> "idle", error |-> NoError, retries |-> 0, missing |-> FALSE,
     inserted |-> FALSE, violated |-> FALSE]

NoDelivery ==
    [sent |-> "none", defensiveInserts |-> 0, ex |-> [d \in Deliveries |-> IdleExecution]]


----------------------------------------------------------------------------
(* The comments of a video: the page.evaluate of getYouTubeVideoData *)

MaxCommentNodes == 50     \* Math.min(commentElements.length, 50), comments.slice(0, 50)
CommentLengthBound == 10  \* commentText.length > 10

\* the text of a comment node: its length, and how many of its characters are
\* leading or trailing whitespace; a node may have no textContent
CommentLengths ==
    {0, CommentLengthBound - 1, CommentLengthBound, CommentLengthBound + 1,
     CommentLengthBound + 2}
NodeTexts ==
    {t \in [text : {"filler", "other"}, len : CommentLengths, pad : {0, 2},
            present : BOOLEAN] : t.pad <= t.len}

\* the numbers of #content-text nodes a page holds
NodeCounts == {0, 1, 2, MaxCommentNodes - 1, MaxCommentNodes, MaxCommentNodes + 1}

\* a page of n nodes with text f, but for node p, which has text t
PageNodes(n, f, p, t) == [i \in 1..n |-> IF i = p THEN t ELSE f]

\* the pages: every node holds the same ten visible characters and a space, or
\* more, but for one node, the first, the last, the 50th or the 51st
Fillers ==
    {[text |-> "filler", len |-> CommentLengthBound + l, pad |-> 1, present |-> TRUE] :
        l \in {1, 2}}
Pages ==
    {PageNodes(n, f, p, t) :
        n \in NodeCounts, f \in Fillers,
        p \in {1, MaxCommentNodes, MaxCommentNodes + 1},
        t \in {x \in NodeTexts : x.text = "other"}}

\* commentElements[i]?.textContent?.trim()
commentText(node) == [text |-> node.text, len |-> node.len - node.pad]

\* if (commentText && commentText.length > 10)
keptComment(node) == node.present /\ commentText(node).len > CommentLengthBound

\* the loop over the first 50 nodes, then comments.slice(0, 50)
extractComments(nodes) ==
    LET first == SubSeq(nodes, 1, Min(Len(nodes), MaxCommentNodes))
        kept == SelectSeq(first, keptComment)
        texts == [i \in 1..Len(kept) |-> commentText(kept[i])]
    IN  SubSeq(texts, 1, Min(Len(texts), MaxCommentNodes))

NoComments == [pc |-> "idle", nodes |-> <<>>, comments |-> <<>>]


----------------------------------------------------------------------------
(* Track calls of two concurrent runs on the index file (SpecTrack) *)

\* a run started by the operator and one started by the scheduler
TrackRuns == {"manual", "cron"}

NoEntry == [videoId |-> NoMessage, url |-> [shape |-> "other", seg |-> NoMessage]]

IdleTrack == [pc |-> "idle", entry |-> NoEntry, data |-> <<>>, success |-> FALSE]

NoTracks ==
    [file |-> NoFile, run |-> [r \in TrackRuns |-> IdleTrack],
     checked |-> FALSE, duplicateUrls |-> <<>>]

IdleIngest ==
    [pc |-> "idle", urls |-> <<>>, idsBefore |-> {}, storeBefore |-> {},
     newUrls |-> <<>>, duplicateUrls |-> <<>>, finalVideosToScrape |-> <<>>,
     pos |-> 0, attempts |-> <<>>, outcomes |-> <<>>, videos |-> <<>>, trackCalls |-> 0]

----------------------------------------------------------------------------
Init ==
    /\ ledger = <<>>
    /\ nextRun = 1
    /\ events = {}
    /\ execs = 0
    /\ inv = [w \in Slots |-> IdleInv]
    /\ dbFaults = 0
    /\ index = NoFile
    /\ store = {}
    /\ ing = IdleIngest
    /\ fsFaults = 0
    /\ trk = NoCall
    /\ tracked = {}
    /\ calls = 0
    /\ ext = NoExtraction
    /\ videosTable = <<>>
    /\ txn = [r \in Runs |-> NoTransaction]
    /\ persists = 0
    /\ hv = NoHarvest
    /\ dl = NoDownload
    /\ pf = NoField
    /\ sv = NoSave
    /\ an = NoAnalysis
    /\ sc = NoScrape
    /\ gs = NoGenerate
    /\ dv = NoDelivery
    /\ cm = NoComments
    /\ ct = NoTracks

CanStart(w) ==
    /\ inv[w].pc = "idle"
    /\ execs < MaxExecutions

\* POST /api/workflow/run: generate the runId, insert the running row, send the
\* event; the manual wrapper starts for it: const { runId, inputData } = event.data
ApiRun(w) ==
    /\ CanStart(w)
    /\ nextRun <= MaxExecutions
    /\ ledger' = Append(ledger, RunningRow(nextRun))
    /\ events' = events \cup {[runId |-> nextRun, sender |-> "handler"]}
    /\ nextRun' = nextRun + 1
    /\ execs' = execs + 1
    /\ \E n \in 0..MaxVideos :
        inv' = [inv EXCEPT ![w] =
                    [Started("manual", nextRun, n) EXCEPT !.sender = "handler"]]
    /\ UNCHANGED <<dbFaults, ingestVars, otherVars>>

\* an event workflow.manual.youtube-research sent by another caller, with a runId
\* no row was inserted for; the manual wrapper starts for it
SendEvent(w) ==
    /\ CanStart(w)
    /\ nextRun <= MaxExecutions
    /\ events' = events \cup {[runId |-> nextRun, sender |-> "other"]}
    /\ nextRun' = nextRun + 1
    /\ execs' = execs + 1
    /\ \E n \in 0..MaxVideos :
        inv' = [inv EXCEPT ![w] =
                    [Started("manual", nextRun, n) EXCEPT !.sender = "other"]]
    /\ UNCHANGED <<ledger, dbFaults, ingestVars, otherVars>>

\* an event is delivered again: the manual wrapper starts for a runId it has seen
Redeliver(w) ==
    /\ CanStart(w)
    /\ \E e \in events, n \in 0..MaxVideos :
        inv' = [inv EXCEPT ![w] =
                    [Started("manual", e.runId, n) EXCEPT !.sender = e.sender]]
    /\ execs' = execs + 1
    /\ UNCHANGED <<ledger, nextRun, events, dbFaults, ingestVars, otherVars>>

CronBeginInsertOutsideTry(w) ==
    /\ nextRun <= MaxExecutions
    /\ nextRun' = nextRun + 1
    /\ execs' = execs + 1
    /\ \E n \in 0..MaxVideos :
        \/ /\ ledger' = Append(ledger, RunningRow(nextRun))
           /\ inv' = [inv EXCEPT ![w] = Started("cron", nextRun, n)]
           /\ UNCHANGED dbFaults
        \/ /\ CanFault
           /\ dbFaults' = dbFaults + 1
           /\ inv' = [inv EXCEPT ![w] = Started("cron", nextRun, n)]
           /\ UNCHANGED ledger
    /\ UNCHANGED <<events, ingestVars, otherVars>>

\* the body of the cron wrapper up to run.start(): generate the runId, insert the
\* running row (inside the try)
CronBegin(w) ==
    /\ nextRun <= MaxExecutions
    /\ nextRun' = nextRun + 1
    /\ execs' = execs + 1
    /\ \E n \in 0..MaxVideos :
        \/ /\ ledger' = Append(ledger, RunningRow(nextRun))
           /\ inv' = [inv EXCEPT ![w] = Started("cron", nextRun, n)]
           /\ UNCHANGED dbFaults
        \/ /\ CanFault
           /\ dbFaults' = dbFaults + 1
           /\ inv' = [inv EXCEPT ![w] =
                        [Started("cron", nextRun, n) EXCEPT
                            !.pc = "fail_update", !.error = DbError]]
           /\ UNCHANGED ledger
    /\ UNCHANGED <<events, ingestVars, otherVars>>

CronStart(w) ==
    /\ CanStart(w)
    /\ CronBegin(w)

\* the retry layer runs the wrapper again after it threw: the manual wrapper reads
\* the same event (same runId), the cron wrapper generates a new runId
Retry(w) ==
    /\ inv[w].pc = "thrown"
    /\ execs < MaxExecutions
    /\ \/ /\ inv[w].kind = "manual"
          /\ inv' = [inv EXCEPT ![w] =
                        [Started("manual", inv[w].runId, inv[w].requested) EXCEPT
                            !.sender = inv[w].sender]]
          /\ execs' = execs + 1
          /\ UNCHANGED <<ledger, nextRun, events, dbFaults, ingestVars, otherVars>>
       \/ /\ inv[w].kind = "cron"
          /\ CronBegin(w)

\* the execution is over (the wrapper returned, or threw and is not retried)
Release(w) ==
    /\ inv[w].pc \in {"returned", "thrown"}
    /\ inv' = [inv EXCEPT ![w] = IdleInv]
    /\ UNCHANGED <<ledger, nextRun, events, execs, dbFaults, ingestVars, otherVars>>

----------------------------------------------------------------------------
(* The workflow steps *)

\* scrapeYouTubeStep: ingest returns the records of the URLs it harvested, or throws
\* when the duplicate check fails
Scrape(w) ==
    /\ inv[w].pc = "scrape"
    /\ \/ \E k \in 0..inv[w].requested :
            inv' = [inv EXCEPT ![w] = [StageOk(w, "scrape") EXCEPT !.scraped = k]]
       \/ \E e \in StageError("scrape") :
            inv' = [inv EXCEPT ![w] = StageThrows(w, "scrape", e)]
    /\ UNCHANGED <<ledger, nextRun, events, execs, dbFaults, ingestVars, otherVars>>

\* analyzeContentStep: a record whose analysis call fails is skipped; never throws
Analyze(w) ==
    /\ inv[w].pc = "analyze"
    /\ \E k \in 0..inv[w].scraped :
            inv' = [inv EXCEPT ![w] = [StageOk(w, "analyze") EXCEPT !.analyzed = k]]
    /\ UNCHANGED <<ledger, nextRun, events, execs, dbFaults, ingestVars, otherVars>>

\* storeDataStep: one transaction upserts every record and, if a runId is in the
\* runtime context, sets the run's video count; any failure rolls back and throws
Persist(w) ==
    /\ inv[w].pc = "persist"
    /\ \/ /\ inv' = [inv EXCEPT ![w] =
                        [StageOk(w, "persist") EXCEPT !.stored = inv[w].analyzed]]
          /\ ledger' = IF PersistRunId(w) # NoRunId
                       THEN UpdateVideoCount(PersistRunId(w), inv[w].analyzed)
                       ELSE ledger
       \/ /\ \E e \in StageError("persist") :
                inv' = [inv EXCEPT ![w] = StageThrows(w, "persist", e)]
          /\ UNCHANGED ledger
    /\ UNCHANGED <<nextRun, events, execs, dbFaults, ingestVars, otherVars>>

\* transformDataStep: pure reshaping
Transform(w) ==
    /\ inv[w].pc = "transform"
    /\ inv' = [inv EXCEPT ![w] = StageOk(w, "transform")]
    /\ UNCHANGED <<ledger, nextRun, events, execs, dbFaults, ingestVars, otherVars>>

\* generateScriptStep: one call to the script-generation service
Generate(w) ==
    /\ inv[w].pc = "generate"
    /\ \/ inv' = [inv EXCEPT ![w] =
                    [StageOk(w, "generate") EXCEPT !.scriptCalls = @ + 1]]
       \/ \E e \in StageError("generate") :
            inv' = [inv EXCEPT ![w] =
                    [StageThrows(w, "generate", e) EXCEPT !.scriptCalls = @ + 1]]
    /\ UNCHANGED <<ledger, nextRun, events, execs, dbFaults, ingestVars, otherVars>>

\* markCompletedStep: returns its input
Mark(w) ==
    /\ inv[w].pc = "mark"
    /\ inv' = [inv EXCEPT ![w] = StageOk(w, "mark")]
    /\ UNCHANGED <<ledger, nextRun, events, execs, dbFaults, ingestVars, otherVars>>

----------------------------------------------------------------------------
(* The wrappers' ledger statements *)

\* success path: UPDATE ... SET status = 'completed' ... RETURNING run_id
CompleteUpdate(w) ==
    /\ inv[w].pc = "complete_update"
    /\ \/ /\ ledger' = UpdateCompleted(inv[w].runId)
          /\ inv' = [inv EXCEPT ![w].pc =
                        IF RowsOf(inv[w].runId) = {} THEN "complete_insert" ELSE "returned",
                                ![w].missing = (RowsOf(inv[w].runId) = {})]
          /\ UNCHANGED dbFaults
       \/ /\ CanFault
          /\ dbFaults' = dbFaults + 1
          /\ inv' = [inv EXCEPT ![w].pc = "fail_update", ![w].error = DbError]
          /\ UNCHANGED ledger
    /\ UNCHANGED <<nextRun, events, execs, ingestVars, otherVars>>

\* success path: the defensive INSERT of a completed row
CompleteInsert(w) ==
    /\ inv[w].pc = "complete_insert"
    /\ \/ /\ ~UniqueViolation(inv[w].runId)
          /\ ledger' = Append(ledger, CompletedRow(inv[w].runId))
          /\ inv' = [inv EXCEPT ![w].pc = "returned"]
          /\ UNCHANGED dbFaults
       \/ /\ UniqueViolation(inv[w].runId)
          /\ inv' = [inv EXCEPT ![w].pc = "fail_update", ![w].error = DbError]
          /\ UNCHANGED <<ledger, dbFaults>>
       \/ /\ CanFault
          /\ dbFaults' = dbFaults + 1
          /\ inv' = [inv EXCEPT ![w].pc = "fail_update", ![w].error = DbError]
          /\ UNCHANGED ledger
    /\ UNCHANGED <<nextRun, events, execs, ingestVars, otherVars>>

FailUpdateThrowsDbError(w) ==
    /\ inv[w].pc = "fail_update"
    /\ \/ /\ ledger' = UpdateFailed(inv[w].runId, ErrorMessageOf(inv[w].error))
          /\ inv' = [inv EXCEPT ![w].pc =
                        IF RowsOf(inv[w].runId) = {} THEN "fail_insert" ELSE "thrown",
                                ![w].missing = (RowsOf(inv[w].runId) = {})]
          /\ UNCHANGED dbFaults
       \/ /\ CanFault
          /\ dbFaults' = dbFaults + 1
          /\ inv' = [inv EXCEPT ![w].pc = "thrown", ![w].handlerThrew = TRUE,
                                ![w].error = DbError]
          /\ UNCHANGED ledger
    /\ UNCHANGED <<nextRun, events, execs, ingestVars, otherVars>>

\* catch (error): UPDATE ... SET status = 'failed', error_message = ... RETURNING run_id;
\* an error of the statement is caught, logged and dropped, then the original error
\* is thrown again
FailUpdate(w) ==
    /\ inv[w].pc = "fail_update"
    /\ \/ /\ ledger' = UpdateFailed(inv[w].runId, ErrorMessageOf(inv[w].error))
          /\ inv' = [inv EXCEPT ![w].pc =
                        IF RowsOf(inv[w].runId) = {} THEN "fail_insert" ELSE "thrown",
                                ![w].missing = (RowsOf(inv[w].runId) = {})]
          /\ UNCHANGED dbFaults
       \/ /\ CanFault
          /\ dbFaults' = dbFaults + 1
          /\ inv' = [inv EXCEPT ![w].pc = "thrown", ![w].handlerThrew = TRUE]
          /\ UNCHANGED ledger
    /\ UNCHANGED <<nextRun, events, execs, ingestVars, otherVars>>

\* catch (error): the defensive INSERT of a failed row
FailInsert(w) ==
    /\ inv[w].pc = "fail_insert"
    /\ \/ /\ ~UniqueViolation(inv[w].runId)
          /\ ledger' = Append(ledger, FailedRow(inv[w].runId, ErrorMessageOf(inv[w].error)))
          /\ inv' = [inv EXCEPT ![w].pc = "thrown"]
          /\ UNCHANGED dbFaults
       \/ /\ UniqueViolation(inv[w].runId)
          /\ inv' = [inv EXCEPT ![w].pc = "thrown", ![w].handlerThrew = TRUE]
          /\ UNCHANGED <<ledger, dbFaults>>
       \/ /\ CanFault
          /\ dbFaults' = dbFaults + 1
          /\ inv' = [inv EXCEPT ![w].pc = "thrown", ![w].handlerThrew = TRUE]
          /\ UNCHANGED ledger
    /\ UNCHANGED <<nextRun, events, execs, ingestVars, otherVars>>

----------------------------------------------------------------------------
Next ==
    \/ \E w \in Slots : ApiRun(w)
    \/ \E w \in Slots : SendEvent(w)
    \/ \E w \in Slots : Redeliver(w)
    \/ \E w \in Slots : CronStart(w)
    \/ \E w \in Slots : Retry(w)
    \/ \E w \in Slots : Release(w)
    \/ \E w \in Slots : Scrape(w)
    \/ \E w \in Slots : Analyze(w)
    \/ \E w \in Slots : Persist(w)
    \/ \E w \in Slots : Transform(w)
    \/ \E w \in Slots : Generate(w)
    \/ \E w \in Slots : Mark(w)
    \/ \E w \in Slots : CompleteUpdate(w)
    \/ \E w \in Slots : CompleteInsert(w)
    \/ \E w \in Slots : FailUpdate(w)
    \/ \E w \in Slots : FailInsert(w)

Spec == Init /\ [][Next]_vars

----------------------------------------------------------------------------
(* The ingest call youTubeScrapeTool.execute and the tracker tool calls *)

IngestIdle == ing.pc \in {"idle", "done", "threw"}

CanCall == IngestIdle /\ calls < MaxCalls

\* Step 1: the check call; throw if it did not succeed
IngestCheck(urls, f) ==
    /\ CanCall
    /\ ~f.save
    /\ CanMeet(index, f)
    /\ LET c == checkCall(index, urls, f)
       IN  /\ index' = c.file
           /\ trk' = Returned(c)
           /\ ing' = [IdleIngest EXCEPT
                        !.pc = IF c.success THEN "reconcile" ELSE "threw",
                        !.urls = urls,
                        !.idsBefore = IdsOf(index.videos),
                        !.storeBefore = store,
                        !.newUrls = c.newUrls,
                        !.duplicateUrls = c.duplicateUrls]
    /\ fsFaults' = fsFaults + FaultCount(f)
    /\ calls' = calls + 1
    /\ UNCHANGED <<store, tracked, pipelineVars, otherVars>>

\* the URLs of the tracker's duplicates whose 11-character identifier the
\* videos table lacks
videosToReAdd(dups) ==
    SelectSeq(dups, LAMBDA u : coordinatorVideoId(u).ok /\ coordinatorVideoId(u).id \notin store)

Reconciled(final) ==
    [ing EXCEPT !.finalVideosToScrape = final,
                !.pc = IF final = <<>> THEN "done" ELSE "harvest",
                !.pos = 1]

\* Step 2: the database presence check of the tracker's duplicates and the
\* decision what to scrape; an empty list is returned at once
IngestReconcile ==
    /\ ing.pc = "reconcile"
    /\ \/ /\ ing' = Reconciled(IF ing.duplicateUrls = <<>> THEN ing.newUrls
                               ELSE ing.newUrls \o videosToReAdd(ing.duplicateUrls))
          /\ UNCHANGED dbFaults
       \/ \* the select throws: fall back to the file tracker only
          /\ ing.duplicateUrls # <<>>
          /\ CanFault
          /\ dbFaults' = dbFaults + 1
          /\ ing' = Reconciled(ing.newUrls)
    /\ UNCHANGED <<ledger, nextRun, events, execs, inv, index, store, fsFaults, trk,
                   tracked, calls, otherVars>>

AdvanceUntilFailure(g) ==
    [g EXCEPT !.pos = @ + 1,
              !.pc = IF g.pos = Len(g.finalVideosToScrape) \/ ~g.outcomes[Len(g.outcomes)]
                     THEN "done" ELSE "harvest"]

\* the for loop over finalVideosToScrape goes on to the next URL, or ends
Advance(g) ==
    [g EXCEPT !.pos = @ + 1,
              !.pc = IF g.pos = Len(g.finalVideosToScrape) THEN "done" ELSE "harvest"]

\* Steps 3 and 4 for one URL: getYouTubeVideoData, then the track call, whose
\* result is not looked at; an error skips the URL
IngestHarvest(f) ==
    /\ ing.pc = "harvest"
    /\ LET url == ing.finalVideosToScrape[ing.pos]
           x == coordinatorVideoId(url)
           tried(ok) == [ing EXCEPT !.attempts = Append(@, url),
                                    !.outcomes = Append(@, ok)]
       IN  \/ \* harvested and tracked
              /\ x.ok
              /\ CanMeet(index, f)
              /\ LET entry == [videoId |-> x.id, url |-> url]
                     t == trackCall(index, entry, f)
                 IN  /\ index' = t.file
                     /\ trk' = Returned(t)
                     /\ tracked' = IF t.success THEN tracked \cup {url} ELSE tracked
                     /\ ing' = Advance([tried(TRUE) EXCEPT !.videos = Append(@, entry),
                                                     !.trackCalls = @ + 1])
              /\ fsFaults' = fsFaults + FaultCount(f)
           \/ \* "Invalid YouTube URL format", or the browser failed
              /\ f = NoFaults
              /\ ing' = Advance(tried(FALSE))
              /\ UNCHANGED <<index, trk, tracked, fsFaults>>
    /\ UNCHANGED <<store, calls, pipelineVars, otherVars>>

\* saveAnalysisData upserts harvested videos into table videos
PersistHarvested(ids) ==
    /\ ing.pc = "done"
    /\ ids # {}
    /\ ids \subseteq IdsOf(ing.videos)
    /\ ~(ids \subseteq store)
    /\ store' = store \cup ids
    /\ UNCHANGED <<index, ing, fsFaults, trk, tracked, calls, pipelineVars, otherVars>>

ToolCall(c, f) ==
    /\ index' = c.file
    /\ trk' = Returned(c)
    /\ fsFaults' = fsFaults + FaultCount(f)
    /\ calls' = calls + 1
    /\ UNCHANGED <<store, ing, pipelineVars, otherVars>>

\* the entries a caller of the tool tracks: a URL with the identifier the
\* tracker extracts from it
Entries ==
    {[videoId |-> extractVideoId(u).id, url |-> u] : u \in {v \in Urls : extractVideoId(v).ok}}

CheckTool(urls, f) ==
    /\ CanCall /\ ~f.save /\ CanMeet(index, f)
    /\ ToolCall(checkCall(index, urls, f), f)
    /\ UNCHANGED tracked

TrackTool(entry, f) ==
    /\ CanCall /\ CanMeet(index, f)
    /\ ToolCall(trackCall(index, entry, f), f)
    /\ tracked' = IF trackCall(index, entry, f).success THEN tracked \cup {entry.url}
                  ELSE tracked

ListTool(f) ==
    /\ CanCall /\ ~f.save /\ CanMeet(index, f)
    /\ ToolCall(listCall(index, f), f)
    /\ UNCHANGED tracked

ClearTool(f) ==
    /\ CanCall /\ ~f.read /\ ~f.write
    /\ fsFaults + FaultCount(f) <= MaxFsFaults
    /\ ToolCall(clearCall(index, f), f)
    /\ tracked' = IF f.save THEN tracked ELSE {}

NextIngest ==
    \/ \E urls \in UrlLists, f \in FaultChoices : IngestCheck(urls, f)
    \/ IngestReconcile
    \/ \E f \in FaultChoices : IngestHarvest(f)
    \/ \E ids \in SUBSET Segments : PersistHarvested(ids)
    \/ \E urls \in UrlLists, f \in FaultChoices : CheckTool(urls, f)
    \/ \E entry \in Entries, f \in FaultChoices : TrackTool(entry, f)
    \/ \E f \in FaultChoices : ListTool(f)
    \/ \E f \in FaultChoices : ClearTool(f)

SpecIngest == Init /\ [][NextIngest]_vars

----------------------------------------------------------------------------
(* Properties of the run ledger and the workflow (checked under Spec) *)

Stages == {StageOrder[i] : i \in 1..Len(StageOrder)}

\* the stage that threw in the execution in slot w, if one did
ThrewIn(w, s) ==
    \E i \in 1..Len(inv[w].trace) : inv[w].trace[i] = <<s, "throws">>

OrchestratorThrew(w) == \E s \in Stages : ThrewIn(w, s)

AllStagesReturned(w) ==
    /\ Len(inv[w].trace) = 6
    /\ \A i \in 1..6 : inv[w].trace[i][2] = "ok"

\* the first at most 1000 characters of the string form of error e
First1000(e) == [text |-> e.origin, len |-> IF e.size <= 1000 THEN e.size ELSE 1000]

\* C1: once the status of a RunRecord is completed or failed, no later step of a
\* trigger wrapper (a retry of the manual wrapper with the same runId included)
\* changes it.
C1_OneTerminalTransition ==
    [][\A i \in 1..Len(ledger) :
            ledger[i].status \in {"completed", "failed"}
                => ledger'[i].status = ledger[i].status]_vars

StartedAfter(w, s) ==
    {inv[w].trace[j][1] : j \in {k \in 1..Len(inv[w].trace) :
        \E i \in 1..(k - 1) : inv[w].trace[i][1] = s}}

C5_VideoCountRecorded ==
    \A w \in Slots :
        (inv[w].pc = "returned" /\ AllStagesReturned(w))
            => \A i \in RowsOf(inv[w].runId) :
                ledger[i].status = "completed" /\ ledger[i].videoCount = inv[w].stored

\* C6: an execution in which every stage returned, some items having been skipped
\* at harvest or at analysis, never sets the RunRecord of its runId to failed.
C6_PartialSuccessNeverFailed ==
    [][\A w \in Slots :
        (/\ AllStagesReturned(w)
         /\ (inv[w].scraped < inv[w].requested \/ inv[w].analyzed < inv[w].scraped))
            => \A i \in 1..Len(ledger') :
                (ledger'[i].runId = inv[w].runId /\ ledger'[i].status = "failed")
                    => (i <= Len(ledger) /\ ledger[i].status = "failed")]_vars

\* C7: in every execution the stages start in the order scrape, analyze, persist,
\* transform, generate-script, mark-complete, each after the previous one returned;
\* no stage starts after a stage has thrown, and the stage up next is the one that
\* follows the last one that returned.
C7_StagesInOrder ==
    \A w \in Slots :
        LET t == inv[w].trace
            order == <<"scrape", "analyze", "persist", "transform", "generate", "mark">>
        IN  /\ Len(t) <= 6
            /\ \A i \in 1..Len(t) : t[i][1] = order[i]
            /\ \A i \in 1..(Len(t) - 1) : t[i][2] = "ok"
            /\ inv[w].pc \in {"scrape", "analyze", "persist", "transform", "generate", "mark"}
                => /\ inv[w].pc = order[Len(t) + 1]
                   /\ \A i \in 1..Len(t) : t[i][2] = "ok"
            /\ inv[w].pc \in {"complete_update", "complete_insert", "returned"}
                => Len(t) = 6

C7_Witness ==
    \E w \in Slots : inv[w].pc = "returned" /\ AllStagesReturned(w)

----------------------------------------------------------------------------
(* Properties of ingest and of the tracker (checked under SpecIngest) *)

Range(q) == {q[i] : i \in 1..Len(q)}

\* the identifier of url was in the tracker index when the ingest call began
InIndexBefore(url) ==
    extractVideoId(url).ok /\ extractVideoId(url).id \in ing.idsBefore

\* the identifier of url was in table videos when the ingest call began
InStoreBefore(url) ==
    extractVideoId(url).ok /\ extractVideoId(url).id \in ing.storeBefore

\* C8: once an ingest call has decided what to process, every requested URL whose
\* identifier was in the tracker index but not in storage is in the list it
\* harvests.
C8_Reconciliation ==
    ing.pc \in {"harvest", "done"}
        => \A u \in Range(ing.urls) :
            (InIndexBefore(u) /\ ~InStoreBefore(u))
                => u \in Range(ing.finalVideosToScrape)

\* C9: an ingest call never harvests a requested URL whose identifier was both in
\* the tracker index and in storage; when every requested URL is such a duplicate
\* the call returns the empty list: it does not throw, harvests nothing and
\* makes no track call.
C9_KnownNeverHarvested ==
    /\ \A u \in Range(ing.urls) :
        (InIndexBefore(u) /\ InStoreBefore(u)) => u \notin Range(ing.attempts)
    /\ (/\ ing.pc # "idle"
        /\ \A u \in Range(ing.urls) : InIndexBefore(u) /\ InStoreBefore(u))
            => /\ ing.pc \in {"reconcile", "done"}
               /\ ing.videos = <<>>
               /\ ing.attempts = <<>>
               /\ ing.trackCalls = 0

\* C10: a check call lists every URL it is asked about that a track call has
\* tracked with success since the last clear in duplicateUrls and not in newUrls.
C10_TrackedThenDuplicate ==
    trk.op = "check"
        => \A u \in Range(trk.urls) \cap tracked :
            /\ trk.success
            /\ u \in Range(trk.duplicateUrls)
            /\ u \notin Range(trk.newUrls)

----------------------------------------------------------------------------
(* extractVideoId applied to the URLs of one source *)

LongUrl(id, suffix) == <<Scheme, WatchPrefix>> \o id \o suffix
ShortUrl(id, suffix) == <<"https://", ShortPrefix>> \o id \o suffix
OtherUrl(id, prefix) == <<Scheme, prefix>> \o id

ExtractPair(id, ws, ss, prefix) ==
    /\ ext = NoExtraction
    /\ ext' = [id |-> id,
               longUrl |-> LongUrl(id, ws),
               shortUrl |-> ShortUrl(id, ss),
               otherUrl |-> OtherUrl(id, prefix),
               long |-> extractVideoIdOf(LongUrl(id, ws)),
               short |-> extractVideoIdOf(ShortUrl(id, ss)),
               other |-> extractVideoIdOf(OtherUrl(id, prefix))]
    /\ UNCHANGED exceptUrl

NextUrl ==
    \E id \in Identifiers, ws \in WatchSuffixes, ss \in ShortSuffixes,
       prefix \in {EmbedPrefix, VPrefix, "example.com/"} :
        ExtractPair(id, ws, ss, prefix)

SpecUrl == Init /\ [][NextUrl]_vars

\* C11: for every identifier, extractVideoId returns that identifier both from the
\* long-form URL (with or without further query parameters) and from the
\* short-form URL of the source.
C11_SameIdentifier ==
    ext # NoExtraction
        => /\ ext.long.ok /\ ext.short.ok
           /\ ext.long.id = ext.id
           /\ ext.short.id = ext.long.id

C11_Witness ==
    /\ ext # NoExtraction
    /\ Len(ext.id) = MaxIdChars
    /\ Len(ext.longUrl) > Len(ext.id) + 2
    /\ ext.long.id = ext.id /\ ext.short.id = ext.id

----------------------------------------------------------------------------
(* Properties of the tracker tool calls (checked under SpecIngest) *)

\* the step is a check call of the tool, made directly or by ingest
IsCheckStep == trk'.op = "check" /\ calls' = calls + 1

\* the step is a track call of the tool, made directly or by ingest
IsTrackStep ==
    /\ trk'.op = "track"
    /\ (calls' = calls + 1 \/ ing'.trackCalls = ing.trackCalls + 1)

\* C12: a check call that follows a check call on the same URL list, with no other
\* tracker call in between, returns the same newUrls and the same duplicateUrls.
C12_CheckIdempotent ==
    [][(/\ IsCheckStep
        /\ trk.op = "check" /\ trk.success /\ trk'.success
        /\ trk'.urls = trk.urls)
        => /\ trk'.newUrls = trk.newUrls
           /\ trk'.duplicateUrls = trk.duplicateUrls]_vars

\* C13: a check call whose file operations do not fail succeeds, whatever the URLs;
\* in the result of a successful check every URL from which no identifier can be
\* extracted is reported with an error and is in neither newUrls nor
\* duplicateUrls, and every other URL asked about is in exactly one of the two.
C13_CheckPartition ==
    [][IsCheckStep
        => /\ (fsFaults' = fsFaults) => trk'.success
           /\ trk'.success =>
                \A u \in Range(trk'.urls) :
                    /\ ~extractVideoId(u).ok =>
                        /\ u \in trk'.errors
                        /\ u \notin Range(trk'.newUrls)
                        /\ u \notin Range(trk'.duplicateUrls)
                    /\ extractVideoId(u).ok =>
                        /\ u \notin trk'.errors
                        /\ (u \in Range(trk'.newUrls)) # (u \in Range(trk'.duplicateUrls))]_vars

C13_Witness ==
    /\ trk.op = "check" /\ trk.success /\ Len(trk.urls) = 2
    /\ trk.errors # {}
    /\ trk.newUrls # <<>> \/ trk.duplicateUrls # <<>>

\* the track call of this step replaced, in place, the entry of an identifier
\* the index held
ReplacedInPlace ==
    /\ Len(index'.videos) = Len(index.videos)
    /\ \A i \in 1..Len(index.videos) : index'.videos[i].videoId = index.videos[i].videoId
    /\ \E i \in 1..Len(index.videos) :
        /\ index'.videos[i].url = trk'.urls[1]
        /\ \A j \in 1..Len(index.videos) : j # i => index'.videos[j] = index.videos[j]

\* the track call of this step added one entry, of an identifier the index did
\* not hold
AddedOne ==
    /\ Len(index'.videos) = Len(index.videos) + 1
    /\ SubSeq(index'.videos, 1, Len(index.videos)) = index.videos
    /\ index'.videos[Len(index'.videos)].url = trk'.urls[1]
    /\ index'.videos[Len(index'.videos)].videoId \notin IdsOf(index.videos)

\* C14: the index holds at most one entry per identifier; a track call that succeeds
\* on an identifier the index holds replaces that entry in place and leaves the
\* number of entries unchanged, on a new identifier it adds exactly one entry.
C14_OneEntryPerIdentifier ==
    [][/\ Cardinality(IdsOf(index'.videos)) = Len(index'.videos)
       /\ (IsTrackStep /\ trk'.success) => (ReplacedInPlace \/ AddedOne)]_vars

\* C15: when a track call returns success, the index file holds the entry it was
\* given.
C15_WriteThrough ==
    [][(IsTrackStep /\ trk'.success)
        => /\ index'.exists
           /\ \E i \in 1..Len(index'.videos) : index'.videos[i].url = trk'.urls[1]]_vars

C15_Witness ==
    /\ trk.op = "track" /\ trk.success
    /\ \E i \in 1..Len(index.videos) : index.videos[i].url = trk.urls[1]
    /\ Len(index.videos) = 2

\* the records of the URLs of q whose harvest succeeded, in the order of q
RECURSIVE RecordsOf(_, _)
RecordsOf(q, ok) ==
    IF q = <<>> THEN <<>>
    ELSE (IF Head(ok)
          THEN <<[videoId |-> coordinatorVideoId(Head(q)).id, url |-> Head(q)]>>
          ELSE <<>>) \o RecordsOf(Tail(q), Tail(ok))

\* C17: an ingest call attempts the URLs of its to-process list one after the other
\* whatever the outcome of the earlier ones, and the list it returns holds exactly
\* the records of the URLs whose harvest succeeded, in processing order.
C17_BatchContinues ==
    /\ ing.pc = "harvest" =>
        /\ ing.pos <= Len(ing.finalVideosToScrape)
        /\ ing.attempts = SubSeq(ing.finalVideosToScrape, 1, ing.pos - 1)
    /\ ing.pc = "done" =>
        /\ ing.attempts = ing.finalVideosToScrape
        /\ Len(ing.outcomes) = Len(ing.attempts)
        /\ ing.videos = RecordsOf(ing.attempts, ing.outcomes)

C17_Witness ==
    /\ ing.pc = "done"
    /\ ing.outcomes = <<FALSE, TRUE>>
    /\ Len(ing.videos) = 1

----------------------------------------------------------------------------
(* The video store under concurrent persist calls (SpecStore) *)

\* videoIds on which run r holds the lock of a row it wrote and did not commit
LockedBy(r) == {txn[r].writes[i].videoId : i \in 1..Len(txn[r].writes)}

\* saveAnalysisData reaches db.transaction
BeginPersist(r, batch) ==
    /\ txn[r].pc # "open"
    /\ persists < MaxPersists
    /\ persists' = persists + 1
    /\ txn' = [txn EXCEPT ![r] = [pc |-> "open", batch |-> batch, pos |-> 1,
                                  writes |-> <<>>, n |-> persists + 1]]
    /\ UNCHANGED <<videosTable, exceptStore>>

\* one turn of the loop over analyzedVideos: the upsert of the video; it waits while
\* another transaction holds an uncommitted row of the same video_id
UpsertVideo(r) ==
    /\ txn[r].pc = "open"
    /\ txn[r].pos <= Len(txn[r].batch)
    /\ \A o \in Runs \ {r} : txn[r].batch[txn[r].pos] \notin LockedBy(o)
    /\ txn' = [txn EXCEPT ![r].writes =
                              Append(@, VideoRow(txn[r].batch[txn[r].pos], r, txn[r].n)),
                          ![r].pos = @ + 1]
    /\ UNCHANGED <<videosTable, persists, exceptStore>>

\* the callback of db.transaction returns: the transaction commits
CommitPersist(r) ==
    /\ txn[r].pc = "open"
    /\ txn[r].pos > Len(txn[r].batch)
    /\ videosTable' = applyWrites(videosTable, txn[r].writes)
    /\ txn' = [txn EXCEPT ![r].pc = "committed", ![r].writes = <<>>]
    /\ UNCHANGED <<persists, exceptStore>>

\* a statement of the transaction throws (throw videoError): the transaction is
\* rolled back and saveAnalysisData rethrows
RollbackPersist(r) ==
    /\ txn[r].pc = "open"
    /\ txn' = [txn EXCEPT ![r].pc = "failed", ![r].writes = <<>>]
    /\ UNCHANGED <<videosTable, persists, exceptStore>>

NextStore ==
    \/ \E r \in Runs, batch \in Batches : BeginPersist(r, batch)
    \/ \E r \in Runs : UpsertVideo(r)
    \/ \E r \in Runs : CommitPersist(r)
    \/ \E r \in Runs : RollbackPersist(r)

SpecStore == Init /\ [][NextStore]_vars

\* C16: the table videos never holds two rows with the same videoId, also while the
\* persist transactions of two runs that write the same videoId are open at the
\* same time; when a persist transaction commits, the row of every videoId it wrote
\* carries the values of that transaction, whatever an earlier one had stored.
C16_OneRecordPerIdentifier ==
    [][/\ \A i, j \in 1..Len(videosTable') :
            videosTable'[i].videoId = videosTable'[j].videoId => i = j
       /\ \A r \in Runs :
            (txn[r].pc = "open" /\ txn'[r].pc = "committed") =>
                \A id \in LockedBy(r) :
                    \E i \in 1..Len(videosTable') :
                        videosTable'[i] = VideoRow(id, r, txn[r].n)]_vars

\* the transaction that began first committed last, after the other one had stored
\* the same videoId, and its row is the one in the table
C16_Witness ==
    /\ \A r \in Runs : txn[r].pc = "committed" /\ "v1" \in Range(txn[r].batch)
    /\ txn["r1"].n = 1 /\ txn["r2"].n = 2
    /\ videosTable = <<VideoRow("v1", "r1", 1)>>

----------------------------------------------------------------------------
(* The harvest of one video and the transcript functions (SpecHarvest) *)

\* getTranscriptViaPlaywright applied to a page
ApplyPlaywright(o) ==
    /\ hv.pc = "idle"
    /\ hv' = [hv EXCEPT !.pc = "applied", !.fn = "playwright", !.p = o,
                        !.threw = getTranscriptViaPlaywright(o).threw,
                        !.text = getTranscriptViaPlaywright(o).text,
                        !.attempts = getTranscriptViaPlaywright(o).attempts]
    /\ UNCHANGED exceptHarvest

\* getYouTubeTranscriptViaDownload applied to a video
ApplyDownload(o) ==
    /\ hv.pc = "idle"
    /\ hv' = [hv EXCEPT !.pc = "applied", !.fn = "download", !.d = o,
                        !.threw = getYouTubeTranscriptViaDownload(o).threw,
                        !.text = getYouTubeTranscriptViaDownload(o).text,
                        !.attempts = getYouTubeTranscriptViaDownload(o).attempts]
    /\ UNCHANGED exceptHarvest

\* one turn of the loop of ingest: getYouTubeVideoData, then videos.push and the
\* track call, or the catch that skips the URL
HarvestVideo(o) ==
    /\ hv.pc = "idle"
    /\ LET r == getYouTubeVideoData(o)
       IN  hv' = [hv EXCEPT !.pc = IF r.threw THEN "skipped" ELSE "emitted",
                            !.fn = "harvest", !.h = o,
                            !.threw = r.threw,
                            !.text = r.record.transcript,
                            !.attempts = r.attempts,
                            !.record = r.record,
                            !.open = r.open,
                            !.emitted = ~r.threw,
                            !.trackCalled = ~r.threw]
    /\ UNCHANGED exceptHarvest

\* one turn of the loop of the analyzer: the prompt is built and the model is
\* called; a failed call drops the record
AnalyzeRecord(llm) ==
    /\ hv.pc = "emitted"
    /\ hv' = [hv EXCEPT !.pc = IF llm THEN "analyzed" ELSE "dropped",
                        !.llm = llm,
                        !.prompt = promptOf(hv.record)]
    /\ UNCHANGED exceptHarvest

\* one turn of the loop of persist: the upsert of the record
PersistRecord(db) ==
    /\ hv.pc = "analyzed"
    /\ hv' = [hv EXCEPT !.pc = IF db /\ Insertable(valuesOf(hv.record))
                               THEN "persisted" ELSE "persistFailed",
                        !.db = db,
                        !.row = valuesOf(hv.record)]
    /\ UNCHANGED exceptHarvest

NextHarvest ==
    \/ \E o \in PlaywrightOutcomes : ApplyPlaywright(o)
    \/ \E o \in DownloadOutcomes : ApplyDownload(o)
    \/ \E o \in HarvestOutcomes : HarvestVideo(o)
    \/ \E llm \in BOOLEAN : AnalyzeRecord(llm)
    \/ \E db \in BOOLEAN : PersistRecord(db)

SpecHarvest == Init /\ [][NextHarvest]_vars

\* the page gave its title element: the metadata harvest succeeded
MetadataHarvested ==
    hv.h.regex /\ hv.h.launch /\ hv.h.goto /\ hv.h.landmark /\ hv.h.extract

C20_ThreeStrategiesInOrder ==
    (hv.fn = "harvest" /\ hv.h.regex) =>
        hv.attempts =
            IF hv.h.p.panel = "text" THEN <<"panel">>
            ELSE IF hv.h.p.caption.status = "text" THEN <<"panel", "caption">>
            ELSE <<"panel", "caption", "download">>

\* C20: the harvest resolves the transcript with one attempt, download-and-transcribe,
\* whatever the transcript panel and the caption track of the page hold, and the
\* transcript is the text of that attempt; getTranscriptViaPlaywright, applied on
\* its own, tries the transcript panel first and the caption track only when the
\* panel gave no text.
C20_DownloadOnly ==
    /\ (hv.fn = "harvest" /\ hv.h.regex) =>
        /\ hv.attempts = <<"download">>
        /\ ~hv.threw => hv.record.transcript = getYouTubeTranscriptViaDownload(hv.h.d).text
    /\ (hv.fn = "playwright" /\ ~hv.threw) =>
        /\ hv.attempts = IF hv.p.panel = "text" THEN <<"panel">> ELSE <<"panel", "caption">>
        /\ hv.p.panel = "text" => hv.text = PanelText

C20_Witness ==
    /\ hv.fn = "harvest" /\ ~hv.threw
    /\ hv.h.p.panel = "empty" /\ hv.h.p.caption.status = "none"
    /\ hv.record.transcript = [text |-> "hello world", len |-> 11]
    /\ hv.attempts = <<"download">>

----------------------------------------------------------------------------
(* The download-and-transcribe strategy (SpecDownload) *)

SettleAgain(d, outcome) == [d EXCEPT !.promise = outcome, !.settles = @ + 1]

\* a call of resolve or reject: only the first one settles the promise
Settle(d, outcome) ==
    [d EXCEPT !.promise = IF d.promise = "pending" THEN outcome ELSE @,
              !.settles = @ + 1]

\* getYouTubeTranscriptViaDownload calls videoDownloaderTool.execute, which calls
\* downloadYouTubeAudio: yt-dlp is spawned and the timer is set
StartDownload(spawned) ==
    /\ dl.pc = "idle"
    /\ dl' = [dl EXCEPT !.pc = "downloading",
                        !.proc = IF spawned THEN "running" ELSE "error",
                        !.timer = "armed"]
    /\ UNCHANGED exceptDownload

\* yt-dlp goes one stage further with its files
YtdlpWrite ==
    /\ dl.proc = "running"
    /\ StageOfFiles(dl.files) < Len(FileStages)
    /\ dl' = [dl EXCEPT !.files = FileStages[StageOfFiles(dl.files) + 1]]
    /\ UNCHANGED exceptDownload

\* yt-dlp exits: with code 0 once the audio is extracted or when it wrote nothing,
\* with another code at any stage, and then its files stay as they are
YtdlpExit(code) ==
    /\ dl.proc = "running"
    /\ code = "0" => dl.files \in {{}, {"audio"}}
    /\ dl' = [dl EXCEPT !.proc = "exited", !.code = code]
    /\ UNCHANGED exceptDownload

\* ytdlp.on('close'): reject on a code other than 0 and when no file is found,
\* resolve with the path and the cleanup function otherwise
OnClose ==
    /\ dl.proc \in {"exited", "killed"}
    /\ ~dl.closed
    /\ dl' = [Settle(dl, IF dl.code = "0" /\ "audio" \in dl.files
                         THEN "resolved" ELSE "rejected")
                EXCEPT !.closed = TRUE]
    /\ UNCHANGED exceptDownload

\* ytdlp.on('error'): the process could not be spawned
OnError ==
    /\ dl.proc = "error"
    /\ ~dl.closed
    /\ dl' = [Settle(dl, "rejected") EXCEPT !.closed = TRUE]
    /\ UNCHANGED exceptDownload

\* the callback of setTimeout: ytdlp.kill() and reject; the timer is never cleared
OnTimeout ==
    /\ dl.timer = "armed"
    /\ dl' = [Settle(dl, "rejected")
                EXCEPT !.timer = "fired",
                       !.proc = IF dl.proc = "running" THEN "killed" ELSE @,
                       !.code = IF dl.proc = "running" THEN "null" ELSE @]
    /\ UNCHANGED exceptDownload

\* the await of the download returns: cleanup = downloadResult.cleanup and the
\* transcription starts, or the rejection reaches the catch, which returns "" after
\* a finally that has no cleanup function to call
AwaitDownload ==
    /\ dl.pc = "downloading"
    /\ dl.promise # "pending"
    /\ dl' = IF dl.promise = "resolved"
             THEN [dl EXCEPT !.pc = "transcribing", !.cleanup = TRUE]
             ELSE [dl EXCEPT !.pc = "returned", !.text = NoText]
    /\ UNCHANGED exceptDownload

\* audioTranscriberTool.execute returns or throws, then the finally calls cleanup,
\* which unlinks the audio file if it exists and swallows the error of the unlink;
\* the strategy returns the text, or "" from the catch
TranscribeAndCleanup(stt, unlinked) ==
    /\ dl.pc = "transcribing"
    /\ dl' = [dl EXCEPT !.pc = "returned",
                        !.stt = stt.status,
                        !.text = stt.text,
                        !.files = IF unlinked THEN @ \ {"audio"} ELSE @]
    /\ UNCHANGED exceptDownload

NextDownload ==
    \/ \E spawned \in BOOLEAN : StartDownload(spawned)
    \/ YtdlpWrite
    \/ \E code \in {"0", "1"} : YtdlpExit(code)
    \/ OnClose
    \/ OnError
    \/ OnTimeout
    \/ AwaitDownload
    \/ \E stt \in SttOutcomes, unlinked \in BOOLEAN : TranscribeAndCleanup(stt, unlinked)

SpecDownload == Init /\ [][NextDownload]_vars

\* C21: when the download-and-transcribe strategy returns, no temporary file of the
\* download is left on disk, whatever the exit path.
C21_TempFilesDeleted ==
    dl.pc = "returned" => dl.files = {}

\* C22: after a harvest call, returned or thrown, the browser session it launched
\* is closed.
C22_SessionClosed ==
    hv.fn = "harvest" => ~hv.open

----------------------------------------------------------------------------
(* The analysis fields persist stores (SpecField) *)

\* persist builds the value of one column of the analysis row
StoreAnalysisField(field, v) ==
    /\ pf.pc = "idle"
    /\ pf' = [pc |-> "stored", field |-> field, value |-> v,
              stored |-> storedField(field, v)]
    /\ UNCHANGED exceptField

NextField ==
    \E field \in AnalysisFields, v \in FieldValues : StoreAnalysisField(field, v)

SpecField == Init /\ [][NextField]_vars

\* the stored value is the field as it was given
StoredUnchanged ==
    pf.stored = TextValue(pf.value, pf.value.len, pf.value.pad, FALSE)

\* C23 as stated: every analysis text field longer than the cap is stored with a
\* length of at most the cap and the marker at its end, every field of at most the
\* cap is stored unchanged.
C23_EveryFieldCapped ==
    pf.pc = "stored" =>
        IF pf.value.len > MAX_RAW_ANALYSIS_SIZE
        THEN pf.stored.kind = "text" /\ pf.stored.marked
             /\ pf.stored.len <= MAX_RAW_ANALYSIS_SIZE
        ELSE StoredUnchanged

\* C23: rawAnalysis longer than the cap is stored as its first 262044 characters
\* followed by the marker, at most 262144 characters in all; a non-empty rawAnalysis
\* of at most the cap is stored unchanged and an empty one as null. The other
\* analysis text fields are never truncated: an empty or blank one is stored as the
\* fallback text of its column, any other one trimmed, whatever its length.
C23_RawAnalysisCapped ==
    pf.pc = "stored" =>
        IF pf.field = "rawAnalysis"
        THEN IF pf.value.len > MAX_RAW_ANALYSIS_SIZE
             THEN /\ pf.stored.kind = "text" /\ pf.stored.marked
                  /\ pf.stored.len = MAX_RAW_ANALYSIS_SIZE - TruncationSlack + MarkerLength
                  /\ pf.stored.len <= MAX_RAW_ANALYSIS_SIZE
             ELSE IF pf.value.len = 0 THEN pf.stored = NullValue ELSE StoredUnchanged
        ELSE IF pf.value.len = 0 \/ pf.value.pad = pf.value.len
             THEN pf.stored = FallbackValue
             ELSE /\ pf.stored.kind = "text" /\ ~pf.stored.marked
                  /\ pf.stored.len = pf.value.len - pf.value.pad

C23_Witness ==
    /\ pf.pc = "stored" /\ pf.field = "rawAnalysis"
    /\ pf.value.len = 300 * 1024
    /\ pf.stored.marked

----------------------------------------------------------------------------
(* One persist call: saveAnalysisData and its transaction (SpecSave) *)
(* A transaction in which a statement has failed commits nothing: the server    *)
(* answers the COMMIT of such a transaction with a rollback.                    *)

\* saveAnalysisData reaches db.transaction
StartSave(runId, batch) ==
    /\ sv.pc = "idle"
    /\ sv' = [sv EXCEPT !.pc = "loop", !.runId = runId, !.batch = batch, !.pos = 1]
    /\ UNCHANGED exceptSave

\* one turn of the loop: the upsert of the video, then of its analysis if it has
\* one; a failing statement is rethrown, the transaction rolls back and
\* saveAnalysisData rethrows
SaveRecord(videoOk, analysisOk) ==
    /\ sv.pc = "loop"
    /\ sv.pos <= Len(sv.batch)
    /\ LET rec == sv.batch[sv.pos]
       IN  IF videoOk /\ (rec.analysis => analysisOk)
           THEN sv' = [sv EXCEPT !.pos = @ + 1,
                                 !.savedVideoCount = @ + 1,
                                 !.txVideos = @ \cup {rec.videoId},
                                 !.txAnalysis = IF rec.analysis THEN @ \cup {rec.videoId} ELSE @]
           ELSE sv' = [sv EXCEPT !.pc = "raised", !.raised = TRUE,
                                 !.txVideos = {}, !.txAnalysis = {}]
    /\ UNCHANGED exceptSave

\* after the loop: if (runId) the update of video_count inside the transaction,
\* whose error is caught and not rethrown; without a runId nothing is updated
SaveCount(ok) ==
    /\ sv.pc = "loop"
    /\ sv.pos > Len(sv.batch)
    /\ sv' = IF sv.runId = NoRunId THEN [sv EXCEPT !.pc = "commit"]
             ELSE IF ok THEN [sv EXCEPT !.pc = "commit", !.txCount = sv.savedVideoCount]
             ELSE [sv EXCEPT !.pc = "commit", !.aborted = TRUE]
    /\ UNCHANGED exceptSave

\* the callback of db.transaction returns: COMMIT, and saveAnalysisData returns
\* success
CommitSave ==
    /\ sv.pc = "commit"
    /\ sv' = IF sv.aborted
             THEN [sv EXCEPT !.pc = "returned", !.txVideos = {}, !.txAnalysis = {}]
             ELSE [sv EXCEPT !.pc = "returned",
                             !.videos = @ \cup sv.txVideos,
                             !.analysis = @ \cup sv.txAnalysis,
                             !.videoCount = sv.txCount]
    /\ UNCHANGED exceptSave

NextSave ==
    \/ \E runId \in SaveRunIds, batch \in SaveBatches : StartSave(runId, batch)
    \/ \E videoOk, analysisOk \in BOOLEAN : SaveRecord(videoOk, analysisOk)
    \/ \E ok \in BOOLEAN : SaveCount(ok)
    \/ CommitSave

SpecSave == Init /\ [][NextSave]_vars

\* the videoIds of the batch, and of its records that carry an analysis
BatchIds == {sv.batch[i].videoId : i \in 1..Len(sv.batch)}
BatchAnalysisIds == {sv.batch[i].videoId : i \in {j \in 1..Len(sv.batch) : sv.batch[j].analysis}}

\* C24: once persist has returned or raised, the database holds the video rows and
\* the analysis rows of the batch together with the video count of the run, or none
\* of the three; when persist raised it holds none.
C24_PersistAtomic ==
    sv.pc \in {"returned", "raised"} =>
        /\ \/ /\ sv.videos = BatchIds /\ sv.analysis = BatchAnalysisIds
              /\ sv.videoCount = Len(sv.batch)
           \/ /\ sv.videos = {} /\ sv.analysis = {}
              /\ sv.videoCount = DefaultVideoCount
        /\ sv.raised => sv.videos = {}

----------------------------------------------------------------------------
(* The analyze stage: contentAnalysisTool.execute (SpecAnalyze) *)

\* the tool is called with the videos of the scrape stage
StartAnalyze(videos) ==
    /\ an.pc = "idle"
    /\ an' = [an EXCEPT !.videos = videos, !.pos = 1,
                        !.pc = IF videos = <<>> THEN "done" ELSE "loop"]
    /\ UNCHANGED exceptAnalyze

\* analyzeVideoContent builds the prompt of the record and posts it to the service
CallInsight ==
    /\ an.pc = "loop"
    /\ an' = [an EXCEPT !.pc = "await",
                        !.calls = Append(@, an.videos[an.pos]),
                        !.inFlight = @ + 1]
    /\ UNCHANGED exceptAnalyze

\* the call returns an analysis, or fails: analyzeVideoContent rethrows and the
\* catch of the loop skips the record
InsightReturns(ok) ==
    /\ an.pc = "await"
    /\ LET a == [an EXCEPT !.inFlight = @ - 1, !.outcomes = Append(@, ok)]
       IN  an' = IF ok THEN insightSucceeded(a) ELSE insightFailed(a)
    /\ UNCHANGED exceptAnalyze

NextAnalyze ==
    \/ \E videos \in AnalyzeInputs : StartAnalyze(videos)
    \/ CallInsight
    \/ \E ok \in BOOLEAN : InsightReturns(ok)

SpecAnalyze == Init /\ [][NextAnalyze]_vars

\* the elements of q whose flag in ok is set, in the order of q
RECURSIVE Kept(_, _)
Kept(q, ok) ==
    IF q = <<>> \/ ok = <<>> THEN <<>>
    ELSE (IF Head(ok) THEN <<Head(q)>> ELSE <<>>) \o Kept(Tail(q), Tail(ok))

\* C25: analyze calls the service for the records of its input one after the other,
\* in input order, once each and never two at a time; what it returns is the
\* records whose call succeeded, in input order; a failing call does not make it
\* throw.
C25_BatchPartialFailure ==
    /\ an.inFlight <= 1
    /\ ~an.threw
    /\ an.calls = SubSeq(an.videos, 1, Len(an.calls))
    /\ an.analyzedVideos = Kept(an.videos, an.outcomes)
    /\ an.pc = "done" =>
        /\ an.calls = an.videos
        /\ Len(an.outcomes) = Len(an.videos)

C25_Witness ==
    /\ an.pc = "done"
    /\ an.outcomes = <<FALSE, TRUE, FALSE>>
    /\ Len(an.analyzedVideos) = 1

----------------------------------------------------------------------------
(* The scrape stage: scrapeYouTubeStep (SpecScrape) *)

\* POST /api/settings inserts a new settings row
SaveSettings(v) ==
    /\ sc.pc = "idle"
    /\ Len(sc.settings) < MaxSettings
    /\ sc' = [sc EXCEPT !.settings = Append(@, v)]
    /\ UNCHANGED exceptScrape

\* scrapeYouTubeStep.execute: the URL list is resolved and handed to ingest
ScrapeStep(input, readOk) ==
    /\ sc.pc = "idle"
    /\ sc' = [sc EXCEPT !.pc = "scraped", !.input = input, !.readOk = readOk,
                        !.toIngest = resolveVideoUrls(input, sc.settings, readOk)]
    /\ UNCHANGED exceptScrape

NextScrape ==
    \/ \E v \in SettingsValues : SaveSettings(v)
    \/ \E input \in ScrapeInputs, readOk \in BOOLEAN : ScrapeStep(input, readOk)

SpecScrape == Init /\ [][NextScrape]_vars

\* the run was given a list with at least one URL
ExplicitInput == sc.input.given /\ sc.input.urls # <<>>

\* the latest settings row was read and holds a list
SettingsRead ==
    /\ sc.readOk /\ sc.settings # <<>>
    /\ sc.settings[Len(sc.settings)].kind # "invalid"

\* C26: the scrape stage hands ingest the input list when it is given and not empty;
\* else the list of the settings row saved last, when that row is read; else, also
\* when reading the settings fails, the one hard-coded URL.
C26_UrlPrecedence ==
    sc.pc = "scraped" =>
        /\ ExplicitInput => sc.toIngest = sc.input.urls
        /\ (~ExplicitInput /\ SettingsRead) =>
                sc.toIngest = sc.settings[Len(sc.settings)].urls
        /\ (~ExplicitInput /\ ~SettingsRead) => sc.toIngest = FallbackUrls

C26_Witness ==
    /\ sc.pc = "scraped" /\ ~ExplicitInput /\ SettingsRead
    /\ Len(sc.settings) = 2
    /\ sc.settings[1].urls # sc.settings[2].urls
    /\ sc.toIngest = <<"u1">>

----------------------------------------------------------------------------
(* The generate-script stage (SpecGenerate) *)

\* the workflow reaches generateScriptStep.execute with the transform stage's output
StartGenerate(topic, duration) ==
    /\ gs.pc = "idle"
    /\ gs' = [NoGenerate EXCEPT !.pc = "request", !.topic = topic, !.duration = duration,
                                !.dataDir = gs.dataDir]
    /\ UNCHANGED exceptGenerate

\* generateLongFormScript: the one axios.post; its failure is rethrown by the
\* function and by the step
RequestScript(answer) ==
    /\ gs.pc = "request"
    /\ gs' = IF answer = "fails"
             THEN [gs EXCEPT !.pc = "thrown", !.calls = @ + 1, !.answer = answer]
             ELSE [gs EXCEPT !.pc = "write", !.calls = @ + 1, !.answer = answer,
                             !.generated = scriptOf(answer)]
    /\ UNCHANGED exceptGenerate

\* scriptGeneratorTool.execute: the try around fs.writeFile, then return script; the
\* file is written into directory data, which execute does not create
WriteArtifact(ok) ==
    /\ gs.pc = "write"
    /\ ok => gs.dataDir
    /\ gs' = IF ok THEN artifactWritten(gs) ELSE artifactWriteFailed(gs)
    /\ UNCHANGED exceptGenerate

\* .then(markCompletedStep): the next stage runs on the step's result
MarkCompleted ==
    /\ gs.pc = "returned"
    /\ gs' = [gs EXCEPT !.pc = "marked", !.marked = TRUE]
    /\ UNCHANGED exceptGenerate

\* the run is over
EndGenerate ==
    /\ gs.pc \in {"marked", "thrown"}
    /\ gs' = [NoGenerate EXCEPT !.dataDir = gs.dataDir]
    /\ UNCHANGED exceptGenerate

\* ensureDataDir of the video tracker: mkdir data, recursive
EnsureDataDir ==
    /\ ~gs.dataDir
    /\ gs' = [gs EXCEPT !.dataDir = TRUE]
    /\ UNCHANGED exceptGenerate

NextGenerate ==
    \/ \E topic \in Topics, duration \in Durations : StartGenerate(topic, duration)
    \/ \E answer \in ServiceAnswers : RequestScript(answer)
    \/ \E ok \in BOOLEAN : WriteArtifact(ok)
    \/ MarkCompleted
    \/ EndGenerate
    \/ EnsureDataDir

SpecGenerate == Init /\ [][NextGenerate]_vars

\* C27: a run that is past the request of generate-script has called the script
\* service exactly once; the stage throws only when that request failed, never
\* because the artifact file could not be written: then the stage returns the
\* script the service gave, and the run goes on to mark-complete.
C27_OneCallArtifactBestEffort ==
    /\ gs.pc \in {"write", "returned", "marked", "thrown"} => gs.calls = 1
    /\ gs.pc \in {"idle", "request"} => gs.calls = 0
    /\ gs.pc = "thrown" => gs.answer = "fails" /\ gs.write = "none"
    /\ gs.write = "failed" =>
          /\ gs.pc \in {"returned", "marked"}
          /\ gs.result = scriptOf(gs.answer)
    /\ gs.marked => gs.pc = "marked" /\ gs.write # "none"

C27_Witness ==
    /\ gs.pc = "marked"
    /\ gs.write = "failed"
    /\ gs.calls = 1
    /\ gs.result = scriptOf(gs.answer)

----------------------------------------------------------------------------
(* The running row and the start of the work *)

\* run.start() was called in the execution of slot w
WorkStarted(w) == inv[w].pc \in Stages \/ inv[w].trace # <<>>

\* the ledger holds a row for r that a trigger inserted as running (the wrappers'
\* updates change its status, nothing deletes it)
RunningRowInserted(r) == \E i \in RowsOf(r) : ~ledger[i].defensive

\* the runId was generated by the cron wrapper or by POST /api/workflow/run
TriggerGenerated(w) == inv[w].kind = "cron" \/ inv[w].sender = "handler"

\* C28 as claimed: no execution starts the work of a run before a running row for
\* its runId was inserted.
C28_RowBeforeWork ==
    \A w \in Slots : WorkStarted(w) => RunningRowInserted(inv[w].runId)

\* C28: an execution whose runId the cron wrapper or the request handler generated
\* starts the work only after the running row was inserted: the cron wrapper does
\* not start the workflow when its insert fails, the handler sends the event after
\* its insert. (The manual wrapper starts the workflow for the runId of any event
\* it is delivered, without reading the ledger.)
C28_TriggerRowBeforeWork ==
    \A w \in Slots :
        (WorkStarted(w) /\ TriggerGenerated(w)) => RunningRowInserted(inv[w].runId)

C28_Witness ==
    \E w \in Slots :
        /\ inv[w].sender = "handler"
        /\ inv[w].pc = "scrape"
        /\ \E i \in RowsOf(inv[w].runId) : ledger[i].status = "failed"

----------------------------------------------------------------------------
(* Two deliveries of one trigger event (SpecDelivery): the executions of the
   manual wrapper interleave statement by statement *)

\* POST /api/workflow/run: insert the running row, send the event
HandlerSends ==
    /\ dv.sent = "none"
    /\ ledger' = Append(ledger, RunningRow(DeliveredRunId))
    /\ dv' = [dv EXCEPT !.sent = "handler"]
    /\ UNCHANGED <<dbFaults, exceptDelivery>>

\* the event comes from another sender: no row was inserted for its runId
OtherSends ==
    /\ dv.sent = "none"
    /\ dv' = [dv EXCEPT !.sent = "other"]
    /\ UNCHANGED <<ledger, dbFaults, exceptDelivery>>

\* the event is delivered: the wrapper reads runId and calls run.start()
DeliverEvent(d) ==
    /\ dv.sent # "none"
    /\ dv.ex[d].pc = "idle"
    /\ dv' = [dv EXCEPT !.ex[d].pc = "work"]
    /\ UNCHANGED <<ledger, dbFaults, exceptDelivery>>

\* run.start() returns or throws
RunWorkflow(d) ==
    /\ dv.ex[d].pc = "work"
    /\ \/ dv' = [dv EXCEPT !.ex[d].pc = "complete_update"]
       \/ \E e \in StageError("scrape") :
            dv' = [dv EXCEPT !.ex[d].pc = "fail_update", !.ex[d].error = e]
    /\ UNCHANGED <<ledger, dbFaults, exceptDelivery>>

\* success path: UPDATE ... SET status = 'completed' ... RETURNING run_id
CompletionUpdate(d) ==
    /\ dv.ex[d].pc = "complete_update"
    /\ \/ /\ ledger' = UpdateCompleted(DeliveredRunId)
          /\ dv' = [dv EXCEPT !.ex[d].pc =
                        IF RowsOf(DeliveredRunId) = {} THEN "complete_insert"
                        ELSE "returned",
                              !.ex[d].missing = (RowsOf(DeliveredRunId) = {})]
          /\ UNCHANGED dbFaults
       \/ /\ CanFault
          /\ dbFaults' = dbFaults + 1
          /\ dv' = [dv EXCEPT !.ex[d].pc = "fail_update", !.ex[d].error = DbError]
          /\ UNCHANGED ledger
    /\ UNCHANGED exceptDelivery

\* success path: the defensive INSERT of a completed row
CompletionInsert(d) ==
    /\ dv.ex[d].pc = "complete_insert"
    /\ \/ /\ ~UniqueViolation(DeliveredRunId)
          /\ ledger' = Append(ledger, CompletedRow(DeliveredRunId))
          /\ dv' = [dv EXCEPT !.ex[d].pc = "returned", !.ex[d].inserted = TRUE,
                              !.defensiveInserts = @ + 1]
          /\ UNCHANGED dbFaults
       \/ /\ UniqueViolation(DeliveredRunId)
          /\ dv' = [dv EXCEPT !.ex[d].pc = "fail_update", !.ex[d].error = DbError,
                              !.ex[d].violated = TRUE]
          /\ UNCHANGED <<ledger, dbFaults>>
       \/ /\ CanFault
          /\ dbFaults' = dbFaults + 1
          /\ dv' = [dv EXCEPT !.ex[d].pc = "fail_update", !.ex[d].error = DbError]
          /\ UNCHANGED ledger
    /\ UNCHANGED exceptDelivery

\* catch (error): UPDATE ... SET status = 'failed' ... RETURNING run_id; an error of
\* the statement is caught and dropped, the original error is thrown again
FailureUpdate(d) ==
    /\ dv.ex[d].pc = "fail_update"
    /\ \/ /\ ledger' = UpdateFailed(DeliveredRunId, ErrorMessageOf(dv.ex[d].error))
          /\ dv' = [dv EXCEPT !.ex[d].pc =
                        IF RowsOf(DeliveredRunId) = {} THEN "fail_insert" ELSE "thrown",
                              !.ex[d].missing = (RowsOf(DeliveredRunId) = {})]
          /\ UNCHANGED dbFaults
       \/ /\ CanFault
          /\ dbFaults' = dbFaults + 1
          /\ dv' = [dv EXCEPT !.ex[d].pc = "thrown"]
          /\ UNCHANGED ledger
    /\ UNCHANGED exceptDelivery

\* catch (error): the defensive INSERT of a failed row
FailureInsert(d) ==
    /\ dv.ex[d].pc = "fail_insert"
    /\ \/ /\ ~UniqueViolation(DeliveredRunId)
          /\ ledger' = Append(ledger, FailedRow(DeliveredRunId,
                                                ErrorMessageOf(dv.ex[d].error)))
          /\ dv' = [dv EXCEPT !.ex[d].pc = "thrown", !.ex[d].inserted = TRUE,
                              !.defensiveInserts = @ + 1]
          /\ UNCHANGED dbFaults
       \/ /\ UniqueViolation(DeliveredRunId)
          /\ dv' = [dv EXCEPT !.ex[d].pc = "thrown", !.ex[d].violated = TRUE]
          /\ UNCHANGED <<ledger, dbFaults>>
       \/ /\ CanFault
          /\ dbFaults' = dbFaults + 1
          /\ dv' = [dv EXCEPT !.ex[d].pc = "thrown"]
          /\ UNCHANGED ledger
    /\ UNCHANGED exceptDelivery

\* the retry layer runs the wrapper again for the same event
RetryDelivery(d) ==
    /\ dv.ex[d].pc = "thrown"
    /\ dv.ex[d].retries < MaxRetries
    /\ dv' = [dv EXCEPT !.ex[d] = [IdleExecution EXCEPT !.pc = "work",
                                        !.retries = dv.ex[d].retries + 1,
                                        !.inserted = dv.ex[d].inserted,
                                        !.violated = dv.ex[d].violated]]
    /\ UNCHANGED <<ledger, dbFaults, exceptDelivery>>

NextDelivery ==
    \/ HandlerSends
    \/ OtherSends
    \/ \E d \in Deliveries : DeliverEvent(d)
    \/ \E d \in Deliveries : RunWorkflow(d)
    \/ \E d \in Deliveries : CompletionUpdate(d)
    \/ \E d \in Deliveries : CompletionInsert(d)
    \/ \E d \in Deliveries : FailureUpdate(d)
    \/ \E d \in Deliveries : FailureInsert(d)
    \/ \E d \in Deliveries : RetryDelivery(d)

SpecDelivery == Init /\ [][NextDelivery]_vars

\* C29: however the executions of the wrapper for one runId interleave (both paths,
\* retries, the event delivered twice), the defensive insert creates a row at most
\* once and the ledger holds at most one row with that runId.
C29_OneRowPerRunId ==
    /\ Cardinality(RowsOf(DeliveredRunId)) <= 1
    /\ dv.defensiveInserts <= 1
    /\ dv.sent = "handler" => dv.defensiveInserts = 0

\* both executions found no row to update; one inserted it, the other's insert
\* met the unique index
C29_Witness ==
    \E d1, d2 \in Deliveries :
        /\ d1 # d2
        /\ dv.ex[d1].inserted /\ dv.ex[d2].violated
        /\ dv.ex[d1].pc \in {"returned", "thrown"}
        /\ dv.ex[d2].pc = "thrown"

----------------------------------------------------------------------------
(* The comments of a video (SpecComments) *)

\* the watch page is loaded and scrolled: its comment nodes
LoadComments(nodes) ==
    /\ cm.pc \in {"idle", "extracted"}
    /\ cm' = [pc |-> "loaded", nodes |-> nodes, comments |-> <<>>]
    /\ UNCHANGED exceptComment

\* page.evaluate(...) and the comments field of the result
ExtractComments ==
    /\ cm.pc = "loaded"
    /\ cm' = [cm EXCEPT !.pc = "extracted", !.comments = extractComments(cm.nodes)]
    /\ UNCHANGED exceptComment

NextComments ==
    \/ \E nodes \in Pages : LoadComments(nodes)
    \/ ExtractComments

SpecComments == Init /\ [][NextComments]_vars

\* the texts returned
ReturnedComments == {cm.comments[i] : i \in 1..Len(cm.comments)}

\* the nodes the harvester looks at
FirstNodes == 1..Min(Len(cm.nodes), MaxCommentNodes)

\* C30 as claimed: the harvester returns at most 50 comments; the text of every one
\* of the first 50 comment nodes that is 10 characters long or longer is returned,
\* and no returned comment is shorter than 10 characters.
C30_CommentFilter ==
    cm.pc = "extracted" =>
        /\ Len(cm.comments) <= MaxCommentNodes
        /\ \A i \in FirstNodes :
              (cm.nodes[i].present /\ commentText(cm.nodes[i]).len >= CommentLengthBound)
                  => commentText(cm.nodes[i]) \in ReturnedComments
        /\ \A c \in ReturnedComments : c.len >= CommentLengthBound

\* what the code does: the texts longer than 10 characters are returned, a text
\* of exactly 10 characters is dropped
CommentsLongerThanBound ==
    cm.pc = "extracted" =>
        /\ Len(cm.comments) <= MaxCommentNodes
        /\ \A i \in FirstNodes :
              (cm.nodes[i].present /\ commentText(cm.nodes[i]).len > CommentLengthBound)
                  => commentText(cm.nodes[i]) \in ReturnedComments
        /\ \A c \in ReturnedComments : c.len > CommentLengthBound

----------------------------------------------------------------------------
(* The failure path of the wrappers: what is thrown, what the ledger keeps *)

\* throw error: the error the catch block caught
Rethrown(w) == inv[w].error

\* the error of the stage that threw in the execution of slot w
OrchestratorErrors(w) == UNION {StageError(s) : s \in {t \in Stages : ThrewIn(w, t)}}

\* C31: an execution whose orchestrator threw ends by throwing, and what it throws
\* is the orchestrator's error: when the update to failed matched the row, when the
\* defensive insert was made, and when a ledger statement of the handler threw.
C31_OriginalErrorRethrown ==
    \A w \in Slots :
        OrchestratorThrew(w) =>
            /\ inv[w].pc # "returned"
            /\ inv[w].pc = "thrown" => Rethrown(w) \in OrchestratorErrors(w)

\* the handler's update threw, and the orchestrator's error was thrown again
C31_Witness ==
    \E w \in Slots :
        /\ inv[w].pc = "thrown" /\ OrchestratorThrew(w) /\ inv[w].handlerThrew
        /\ Rethrown(w) \in OrchestratorErrors(w)

\* the execution of slot w is over
Finished(w) == inv[w].pc \in {"returned", "thrown"}

\* C32: once the wrapper execution for a runId has finished, returned or thrown,
\* no RunRecord of that runId has status running: it is completed or failed.
C32_TerminalStatus ==
    \A w \in Slots :
        Finished(w) =>
            \A i \in RowsOf(inv[w].runId) : ledger[i].status \in {"completed", "failed"}

\* a row of runId r is failed after the step and was not before it
NewlyFailed(r) ==
    \E i \in 1..Len(ledger') :
        /\ ledger'[i].runId = r /\ ledger'[i].status = "failed"
        /\ ~(i <= Len(ledger) /\ ledger[i].status = "failed")

\* C33: an execution whose orchestrator run returned (every stage returned) never
\* makes the RunRecord of its runId failed, also when its completion update or its
\* defensive insert throws.
C33_SuccessNeverFailed ==
    [][\A w \in Slots : AllStagesReturned(w) => ~NewlyFailed(inv[w].runId)]_vars

----------------------------------------------------------------------------
(* The promise of downloadYouTubeAudio *)

\* the timer set by setTimeout expires after 5 minutes
SpecDownloadFair == SpecDownload /\ WF_vars(OnTimeout)

\* the close handler found the exit code 0 and the audio file
ResolvedAtClose == dl.closed /\ dl.code = "0"

\* the process exited with another code
RejectedByExitCode == dl.closed /\ dl.code # "0"

\* the process exited with code 0 and no file audio_<timestamp>.* was found
RejectedFileNotFound == dl.closed /\ dl.code = "0" /\ "audio" \notin dl.files

\* a promise that is settled keeps its outcome
OutcomeKept == [][dl.promise # "pending" => dl.promise' = dl.promise]_vars

\* C34 as claimed: the download settles, once: resolved only at a close with exit
\* code 0, rejected only on another exit code, on a spawn error or at the expiry of
\* the timer, which kills the process; an expiry after that changes nothing.
C34_SettlesOnce ==
    /\ [](dl.promise = "resolved" => ResolvedAtClose)
    /\ [](dl.promise = "rejected" =>
            RejectedByExitCode \/ dl.proc = "error" \/ dl.timer = "fired")
    /\ [](dl.timer = "fired" => dl.proc # "running")
    /\ OutcomeKept
    /\ (dl.pc = "downloading" ~> dl.promise # "pending")

\* C34: the same, with one more way to reject: at a close with exit code 0 when
\* the downloaded file is not found.
C34_SettlesOnceOrFileNotFound ==
    /\ [](dl.promise = "resolved" => ResolvedAtClose)
    /\ [](dl.promise = "rejected" =>
            \/ RejectedByExitCode \/ RejectedFileNotFound
            \/ dl.proc = "error" \/ dl.timer = "fired")
    /\ [](dl.timer = "fired" => dl.proc # "running")
    /\ OutcomeKept
    /\ (dl.pc = "downloading" ~> dl.promise # "pending")

\* the timer expired after the download had resolved
C34_Witness ==
    /\ dl.promise = "resolved"
    /\ dl.timer = "fired"
    /\ dl.settles = 2

----------------------------------------------------------------------------
(* Harvest and track in one ingest call (checked under SpecIngest) *)

\* the step in which the for loop of ingest ends and ingest returns
IngestReturns == ing.pc = "harvest" /\ ing'.pc = "done"

\* the URLs of this call whose harvest succeeded, and those whose harvest failed
HarvestedUrls(g) == {g.attempts[i] : i \in {j \in 1..Len(g.attempts) : g.outcomes[j]}}
FailedUrls(g) == {g.attempts[i] : i \in {j \in 1..Len(g.attempts) : ~g.outcomes[j]}}

\* C35: in ingest, each harvest step calls track exactly when the harvest succeeded,
\* before the next URL is taken; when ingest returns, no identifier was added to the
\* index but those of the harvested records, and the identifier of every returned
\* record is in the index.
C35_TrackIffHarvested ==
    [][/\ (ing.pc = "harvest" /\ ing'.pos = ing.pos + 1) =>
            /\ ing'.trackCalls - ing.trackCalls =
                    (IF ing'.outcomes[Len(ing'.outcomes)] THEN 1 ELSE 0)
            /\ Len(ing'.videos) = Cardinality({j \in 1..Len(ing'.outcomes) :
                                                    ing'.outcomes[j]})
       /\ IngestReturns =>
            /\ IdsOf(index'.videos) \subseteq ing.idsBefore \cup IdsOf(ing'.videos)
            /\ IdsOf(ing'.videos) \subseteq IdsOf(index'.videos)]_vars

\* C36: the records one ingest call has harvested have different identifiers, also
\* when the requested list names one source by several URLs: a source is harvested
\* at most once in a call.
C36_OneRecordPerSource ==
    \A i, j \in 1..Len(ing.videos) :
        i # j => ing.videos[i].videoId # ing.videos[j].videoId

\* C37: for every URL of an ingest call that the tracker's extraction accepts, the
\* coordinator's extraction accepts it too and yields the same identifier.
C37_SameIdentifier ==
    \A i \in 1..Len(ing.urls) :
        extractVideoId(ing.urls[i]).ok =>
            coordinatorVideoId(ing.urls[i]) = extractVideoId(ing.urls[i])

\* the step is a list call of the tool
IsListStep == trk'.op = "list" /\ calls' = calls + 1

\* C38: a check call and a list call leave the set of identifiers in the index file
\* as it was, also when the file cannot be read or parsed during the call.
C38_ReadOnlyCallsKeepIndex ==
    [][(IsCheckStep \/ IsListStep) => IdsOf(index'.videos) = IdsOf(index.videos)]_vars

----------------------------------------------------------------------------
(* Track calls of two concurrent runs (SpecTrack): every await of trackNewVideo
   is a point where the other run's call may go on *)

\* the entries the runs track: a URL with the identifier the tracker extracts
TrackEntries ==
    {[videoId |-> extractVideoId(u).id, url |-> u] :
        u \in {v \in Urls : v.shape \in {"watch", "short"}}}

\* simpleVideoTrackerTool.execute with action track: trackNewVideo is called
BeginTrack(r, entry) ==
    /\ ct.run[r].pc = "idle"
    /\ ~ct.checked
    /\ ct' = [ct EXCEPT !.run[r] = [IdleTrack EXCEPT !.pc = "read", !.entry = entry]]
    /\ UNCHANGED exceptTrack

\* ensureTrackingFile: await fs.readFile and JSON.parse, or the catch block
ReadIndex(r) ==
    /\ ct.run[r].pc = "read"
    /\ ct' = IF ct.file.exists
             THEN [ct EXCEPT !.run[r].pc = "save", !.run[r].data = ct.file.videos]
             ELSE [ct EXCEPT !.run[r].pc = "create"]
    /\ UNCHANGED exceptTrack

\* the catch block of ensureTrackingFile: await fs.writeFile of the initial data
CreateIndex(r) ==
    /\ ct.run[r].pc = "create"
    /\ ct' = [ct EXCEPT !.file = EmptyFile, !.run[r].pc = "save", !.run[r].data = <<>>]
    /\ UNCHANGED exceptTrack

\* the record is replaced or pushed in the data read, saveTrackingData writes the
\* whole file, and the call returns success
SaveIndex(r) ==
    /\ ct.run[r].pc = "save"
    /\ ct' = [ct EXCEPT
                !.file = [exists |-> TRUE,
                          videos |-> upsertVideo(ct.run[r].data, ct.run[r].entry)],
                !.run[r].pc = "returned", !.run[r].success = TRUE]
    /\ UNCHANGED exceptTrack

\* a check of the URLs of both runs, after both track calls returned
LaterCheck ==
    /\ \A r \in TrackRuns : ct.run[r].pc = "returned"
    /\ ~ct.checked
    /\ LET urls == <<ct.run["manual"].entry.url, ct.run["cron"].entry.url>>
       IN  ct' = [ct EXCEPT !.checked = TRUE,
                            !.duplicateUrls = checkCall(ct.file, urls, NoFaults).duplicateUrls]
    /\ UNCHANGED exceptTrack

\* the next runs: the index file stays
NextRuns ==
    /\ ct.checked
    /\ ct' = [NoTracks EXCEPT !.file = ct.file]
    /\ UNCHANGED exceptTrack

NextTrack ==
    \/ \E r \in TrackRuns, entry \in TrackEntries : BeginTrack(r, entry)
    \/ \E r \in TrackRuns : ReadIndex(r)
    \/ \E r \in TrackRuns : CreateIndex(r)
    \/ \E r \in TrackRuns : SaveIndex(r)
    \/ LaterCheck
    \/ NextRuns

SpecTrack == Init /\ [][NextTrack]_vars

====
